---- MODULE Spec2Model ----
(***************************************************************************)
(* Hierarchical pathfinding cache: the grid searches, the abstract graph,   *)
(* the chunk layer and the PathCache operations new, find_path,            *)
(* find_paths, find_closest_goal and tiles_changed.                        *)
(*                                                                         *)
(* Conventions: a point is <<x, y>>; Option<T> is a sequence of length 0   *)
(* (None) or 1 (Some); Vec indices are 0-based in the source and are kept  *)
(* 0-based in the operators that index (At, PathAt).                       *)
(***************************************************************************)
EXTENDS Integers, Sequences, FiniteSets, TLC

VARIABLES
    width,        \* PathCache.width
    height,       \* PathCache.height
    neighborhood, \* PathCache.neighborhood: "Manhattan" or "Moore"
    config,       \* PathCache.config
    iter_order,   \* iteration order of the hash containers of this build
    grid,         \* the caller's grid: point -> cost (the cost function)
    nodes,        \* PathCache.nodes (NodeMap)
    chunks,       \* PathCache.chunks
    changes,      \* number of tiles_changed calls so far
    result,       \* outcome of the last operation
    raw_chunks,   \* new_internal, parallel arm: the (Chunk, NodeMap) of every
                  \* index, None while its worker runs
    update,       \* tiles_changed_internal under way: its position (pc), its
                  \* argument tiles and its locals dirty, renew, changed_nodes
    search,       \* a grid or graph search under way: its arguments and its
                  \* locals next, visited, remaining_goals, goal_costs
    abstract_path \* an AbstractPath a caller builds and iterates: the path,
                  \* the last call on it and the cells yielded so far

vars == <<width, height, neighborhood, config, iter_order, grid, nodes, chunks,
          changes, result, raw_chunks, update, search, abstract_path>>

-----------------------------------------------------------------------------
(* Basic helpers *)

None == <<>>
Some(x) == <<x>>

Min(a, b) == IF a < b THEN a ELSE b
Max(a, b) == IF a > b THEN a ELSE b

\* 0-based indexing of a Vec
At(s, i) == s[i + 1]

Reverse(s) == [i \in 1..Len(s) |-> s[Len(s) + 1 - i]]

Points(env) == (0..(env.width - 1)) \X (0..(env.height - 1))

\* A rank that orders points row by row
PointRank(env, p) == p[2] * env.width + p[1]

RECURSIVE SortedBy(_, _)
\* The elements of S as a sequence in ascending order of the rank function r
SortedBy(S, r) ==
    IF S = {} THEN <<>>
    ELSE LET m == CHOOSE x \in S : \A y \in S : r[x] <= r[y]
         IN <<m>> \o SortedBy(S \ {m}, r)

\* Iteration over a hash set / hash map of node ids
IterIds(env, S) ==
    LET asc == SortedBy(S, [i \in S |-> i])
    IN IF env.iter_order = "asc" THEN asc ELSE Reverse(asc)

\* Iteration over a hash set / hash map of points
IterPoints(env, S) ==
    LET asc == SortedBy(S, [p \in S |-> PointRank(env, p)])
    IN IF env.iter_order = "asc" THEN asc ELSE Reverse(asc)

-----------------------------------------------------------------------------
(* utils.rs *)

UP == 0
RIGHT == 1
DOWN == 2
LEFT == 3

DirAll == <<0, 1, 2, 3>>

DirOpposite(dir) == (dir + 2) % 4

DirIsVertical(dir) == dir = 0 \/ dir = 2

UNIT_CIRCLE == << <<0, -1>>, <<1, 0>>, <<0, 1>>, <<-1, 0>> >>

get_in_dir(pos, dir, base, size) ==
    LET diff == At(UNIT_CIRCLE, dir)
    IN IF \/ (pos[1] = base[1] /\ diff[1] < 0)
          \/ (pos[2] = base[2] /\ diff[2] < 0)
          \/ (pos[1] = base[1] + size[1] - 1 /\ diff[1] > 0)
          \/ (pos[2] = base[2] + size[2] - 1 /\ diff[2] > 0)
       THEN None
       ELSE Some(<<pos[1] + diff[1], pos[2] + diff[2]>>)

jump_in_dir(pos, dir, dist, base, size) ==
    LET diff == At(UNIT_CIRCLE, dir)
        res == <<pos[1] + diff[1] * dist, pos[2] + diff[2] * dist>>
    IN IF /\ res[1] >= base[1] /\ res[1] < base[1] + size[1]
          /\ res[2] >= base[2] /\ res[2] < base[2] + size[2]
       THEN Some(res)
       ELSE None

-----------------------------------------------------------------------------
(* neighbors.rs *)

ManhattanOffsets == << <<0, -1>>, <<1, 0>>, <<0, 1>>, <<-1, 0>> >>

MooreOffsets == << <<0, -1>>, <<1, -1>>, <<1, 0>>, <<1, 1>>,
                   <<0, 1>>, <<-1, 1>>, <<-1, 0>>, <<-1, -1>> >>

\* The in-bounds neighbours of a point, in the order the source yields them
get_all_neighbors(env, point) ==
    LET offs == IF env.neighborhood = "Moore" THEN MooreOffsets ELSE ManhattanOffsets
        cand == [i \in 1..Len(offs) |-> <<point[1] + offs[i][1], point[2] + offs[i][2]>>]
    IN SelectSeq(cand, LAMBDA q : q[1] >= 0 /\ q[2] >= 0 /\ q[1] < env.width /\ q[2] < env.height)

AbsDiff(a, b) == IF a > b THEN a - b ELSE b - a

heuristic(env, point, goal) ==
    LET diff_0 == AbsDiff(goal[1], point[1])
        diff_1 == AbsDiff(goal[2], point[2])
    IN IF env.neighborhood = "Moore" THEN Max(diff_0, diff_1) ELSE diff_0 + diff_1

-----------------------------------------------------------------------------
(* path/generic_path.rs: Path<P> *)

PathNew(path, cost) == [path |-> path, cost |-> cost, is_reversed |-> FALSE]

PathLen(p) == Len(p.path)

\* impl Index<usize> for Path
PathAt(p, index) ==
    IF p.is_reversed THEN At(p.path, Len(p.path) - index - 1) ELSE At(p.path, index)

\* reversed that subtracts the start cost and adds nothing for the end
PathReversed_no_end_cost(p, start_cost, end_cost) ==
    [path |-> p.path, cost |-> p.cost - start_cost, is_reversed |-> ~p.is_reversed]

PathReversed(p, start_cost, end_cost) ==
    [path |-> p.path, cost |-> p.cost - start_cost + end_cost,
     is_reversed |-> ~p.is_reversed]

\* Path::iter collected: the points in travel order
PathPoints(p) == IF p.is_reversed THEN Reverse(p.path) ELSE p.path

-----------------------------------------------------------------------------
(* std BinaryHeap as used by the searches.  An element is                  *)
(* [id, cost, key]; Ord is reversed on key (Element: key = cost,           *)
(* HeuristicElement: key = cost + heuristic), so the heap is a min-heap.   *)

\* Ord::le of Element / HeuristicElement: rhs.key.cmp(&self.key) is not Greater
ElemLe(a, b) == a.key >= b.key

RECURSIVE SiftUp(_, _, _)
\* BinaryHeap::sift_up with the hole at 1-based position pos holding e
SiftUp(h, pos, e) ==
    IF pos > 1
    THEN LET parent == pos \div 2
         IN IF ElemLe(e, h[parent])
            THEN [h EXCEPT ![pos] = e]
            ELSE SiftUp([h EXCEPT ![pos] = h[parent]], parent, e)
    ELSE [h EXCEPT ![pos] = e]

HeapPush(h, e) == SiftUp(Append(h, e), Len(h) + 1, e)

RECURSIVE SiftDownToBottom(_, _, _)
\* BinaryHeap::sift_down_to_bottom: move the hole to a leaf, then sift up
SiftDownToBottom(h, pos, e) ==
    LET end == Len(h)
        child == 2 * pos
    IN IF child + 1 <= end
       THEN LET c == IF ElemLe(h[child], h[child + 1]) THEN child + 1 ELSE child
            IN SiftDownToBottom([h EXCEPT ![pos] = h[c]], c, e)
       ELSE IF child = end
            THEN SiftUp([h EXCEPT ![pos] = h[child]], child, e)
            ELSE SiftUp(h, pos, e)

\* BinaryHeap::pop: the greatest element (least key)
HeapTop(h) == h[1]

\* BinaryHeap::pop: the heap that remains
HeapPop(h) ==
    LET item == h[Len(h)]
        rest == SubSeq(h, 1, Len(h) - 1)
    IN IF rest = <<>> THEN rest ELSE SiftDownToBottom(rest, 1, item)

-----------------------------------------------------------------------------
(* grid/a_star.rs and grid/dijkstra.rs *)

\* A search result: found, the path when found, and whether the search
\* hit panic!("Binary Heap failed")
NoPath == [found |-> FALSE, path |-> PathNew(<<>>, 0), panic |-> FALSE]
PanicPath == [found |-> FALSE, path |-> PathNew(<<>>, 0), panic |-> TRUE]
FoundPath(p) == [found |-> TRUE, path |-> p, panic |-> FALSE]

RECURSIVE StepsBack(_, _, _)
\* the parent-pointer walk: goal, parent(goal), ... up to but excluding start
StepsBack(visited, start, current) ==
    IF current = start THEN <<>>
    ELSE <<current>> \o StepsBack(visited, start, visited[current][2])

\* steps.push(start); steps.reverse()
Steps(visited, start, goal) == Reverse(StepsBack(visited, start, goal) \o <<start>>)

\* next and visited before the loop of an A* search over the cells or nodes ids
AStarStart(ids, start) ==
    [next |-> <<[id |-> start, cost |-> 0, key |-> 0]>>,
     visited |-> [i \in ids |-> IF i = start THEN <<0, start>> ELSE None],
     panic |-> FALSE]

\* what an A* search returns after its loop
AStarResult(start, goal, st) ==
    IF st.panic THEN PanicPath
    ELSE IF st.visited[goal] = None THEN NoPath
    ELSE FoundPath(PathNew(Steps(st.visited, start, goal), st.visited[goal][1]))

\* next, visited, remaining_goals and goal_costs before the loop of a Dijkstra
\* search over the cells or nodes ids
DijkstraStart(ids, start, goals) ==
    [next |-> <<[id |-> start, cost |-> 0, key |-> 0]>>,
     visited |-> [i \in ids |-> IF i = start THEN <<0, start>> ELSE None],
     remaining_goals |-> {goals[i] : i \in 1..Len(goals)},
     goal_costs |-> <<>>,
     panic |-> FALSE]

\* what a Dijkstra search returns after its loop: [panic, paths]
DijkstraResult(start, st) ==
    LET reached == {st.goal_costs[i][1] : i \in 1..Len(st.goal_costs)}
        costOf(goal) == (CHOOSE i \in 1..Len(st.goal_costs) : st.goal_costs[i][1] = goal)
    IN [panic |-> st.panic,
        paths |-> IF st.panic THEN [q \in {} |-> NoPath.path]
                  ELSE [goal \in reached |->
                          PathNew(Steps(st.visited, start, goal), st.goal_costs[costOf(goal)][2])]]

RECURSIVE AStarVisit_no_wall_goal(_, _, _, _, _, _, _, _)
\* AStarVisit that skips every wall, the goal too
AStarVisit_no_wall_goal(env, valid, g, goal, current_id, other_cost, nbrs, st) ==
    IF nbrs = <<>> THEN st
    ELSE LET other_id == Head(nbrs)
             rest == Tail(nbrs)
         IN IF other_id \notin valid \/ g[other_id] < 0
            THEN AStarVisit_no_wall_goal(env, valid, g, goal, current_id, other_cost, rest, st)
            ELSE LET prev == st.visited[other_id]
                     needs_visit == IF prev # None THEN prev[1] > other_cost ELSE TRUE
                 IN IF needs_visit
                    THEN AStarVisit_no_wall_goal(env, valid, g, goal, current_id, other_cost, rest,
                           [st EXCEPT
                              !.visited = [@ EXCEPT ![other_id] = <<other_cost, current_id>>],
                              !.next = HeapPush(@, [id |-> other_id, cost |-> other_cost,
                                                    key |-> other_cost + heuristic(env, other_id, goal)])])
                    ELSE AStarVisit_no_wall_goal(env, valid, g, goal, current_id, other_cost, rest, st)

RECURSIVE AStarVisit(_, _, _, _, _, _, _, _)
\* the loop over all_neighbors of one expanded cell
AStarVisit(env, valid, g, goal, current_id, other_cost, nbrs, st) ==
    IF nbrs = <<>> THEN st
    ELSE LET other_id == Head(nbrs)
             rest == Tail(nbrs)
         IN IF other_id \notin valid
            THEN AStarVisit(env, valid, g, goal, current_id, other_cost, rest, st)
            ELSE IF g[other_id] < 0 /\ other_id # goal
            THEN AStarVisit(env, valid, g, goal, current_id, other_cost, rest, st)
            ELSE LET prev == st.visited[other_id]
                     needs_visit == IF prev # None THEN prev[1] > other_cost ELSE TRUE
                 IN IF needs_visit
                    THEN AStarVisit(env, valid, g, goal, current_id, other_cost, rest,
                           [st EXCEPT
                              !.visited = [@ EXCEPT ![other_id] = <<other_cost, current_id>>],
                              !.next = HeapPush(@, [id |-> other_id, cost |-> other_cost,
                                                    key |-> other_cost + heuristic(env, other_id, goal)])])
                    ELSE AStarVisit(env, valid, g, goal, current_id, other_cost, rest, st)

\* AStarBody with the arms Greater and Less of the match swapped
AStarBody_arms_swapped(env, valid, g, goal, st) ==
    LET e == HeapTop(st.next)
        Body(popped) ==
            IF e.id = goal THEN popped
            ELSE IF e.cost < st.visited[e.id][1] THEN popped
            ELSE IF e.cost > st.visited[e.id][1] THEN [popped EXCEPT !.panic = TRUE]
            ELSE LET delta_cost == g[e.id]
                 IN IF delta_cost < 0 THEN popped
                    ELSE AStarVisit(env, valid, g, goal, e.id, e.cost + delta_cost,
                                    get_all_neighbors(env, e.id), popped)
    IN Body([st EXCEPT !.next = HeapPop(@)])

\* the body of the loop for the entry that next.pop() hands out
AStarBody(env, valid, g, goal, st) ==
    LET e == HeapTop(st.next)
        Body(popped) ==
            IF e.id = goal THEN popped
            ELSE IF e.cost > st.visited[e.id][1] THEN popped
            ELSE IF e.cost < st.visited[e.id][1] THEN [popped EXCEPT !.panic = TRUE]
            ELSE LET delta_cost == g[e.id]
                 IN IF delta_cost < 0 THEN popped
                    ELSE AStarVisit(env, valid, g, goal, e.id, e.cost + delta_cost,
                                    get_all_neighbors(env, e.id), popped)
    IN Body([st EXCEPT !.next = HeapPop(@)])

\* if current_id == goal { break; }
AStarBreaks(goal, st) == HeapTop(st.next).id = goal

RECURSIVE AStarLoop(_, _, _, _, _)
\* while let Some(..) = next.pop()
AStarLoop(env, valid, g, goal, st) ==
    IF st.next = <<>> THEN st
    ELSE LET Again(st1) ==
                 IF st1.panic \/ AStarBreaks(goal, st) THEN st1
                 ELSE AStarLoop(env, valid, g, goal, st1)
         IN Again(AStarBody(env, valid, g, goal, st))

\* grid::a_star_search(neighborhood, valid, get_cost, start, goal)
a_star_search(env, valid, g, start, goal) ==
    IF g[start] < 0 THEN NoPath
    ELSE IF start = goal THEN FoundPath(PathNew(<<start, start>>, 0))
    ELSE AStarResult(start, goal,
                     AStarLoop(env, valid, g, goal, AStarStart(Points(env), start)))

RECURSIVE DijkstraVisit(_, _, _, _, _, _)
DijkstraVisit(valid, g, current_id, other_cost, nbrs, st) ==
    IF nbrs = <<>> THEN st
    ELSE LET other_id == Head(nbrs)
             rest == Tail(nbrs)
         IN IF other_id \notin valid
            THEN DijkstraVisit(valid, g, current_id, other_cost, rest, st)
            ELSE IF g[other_id] < 0 /\ other_id \notin st.remaining_goals
            THEN DijkstraVisit(valid, g, current_id, other_cost, rest, st)
            ELSE LET prev == st.visited[other_id]
                     needs_visit == IF prev # None THEN prev[1] > other_cost ELSE TRUE
                 IN IF needs_visit
                    THEN DijkstraVisit(valid, g, current_id, other_cost, rest,
                           [st EXCEPT
                              !.visited = [@ EXCEPT ![other_id] = <<other_cost, current_id>>],
                              !.next = HeapPush(@, [id |-> other_id, cost |-> other_cost,
                                                    key |-> other_cost])])
                    ELSE DijkstraVisit(valid, g, current_id, other_cost, rest, st)

\* DijkstraBreaks that ends the search at the last goal only
DijkstraBreaks_at_last_goal(only_closest_goal, st) ==
    LET e == HeapTop(st.next)
    IN /\ e.cost = st.visited[e.id][1]
       /\ st.remaining_goals = {e.id}

\* the entry that next.pop() hands out is a goal that ends the search
DijkstraBreaks(only_closest_goal, st) ==
    LET e == HeapTop(st.next)
    IN /\ e.cost = st.visited[e.id][1]
       /\ e.id \in st.remaining_goals
       /\ (only_closest_goal \/ st.remaining_goals = {e.id})

\* the body of the loop for the entry that next.pop() hands out
DijkstraBody(env, valid, g, only_closest_goal, st) ==
    LET e == HeapTop(st.next)
        is_goal == e.id \in st.remaining_goals
        Expand(st1) ==
            IF is_goal /\ (only_closest_goal \/ st1.remaining_goals = {})
            THEN st1
            ELSE LET delta_cost == g[e.id]
                 IN IF delta_cost < 0 THEN st1
                    ELSE DijkstraVisit(valid, g, e.id, e.cost + delta_cost,
                                       get_all_neighbors(env, e.id), st1)
        Body(popped) ==
            IF e.cost > st.visited[e.id][1] THEN popped
            ELSE IF e.cost < st.visited[e.id][1] THEN [popped EXCEPT !.panic = TRUE]
            ELSE Expand(IF is_goal
                        THEN [popped EXCEPT !.remaining_goals = @ \ {e.id},
                                            !.goal_costs = Append(@, <<e.id, e.cost>>)]
                        ELSE popped)
    IN Body([st EXCEPT !.next = HeapPop(@)])

RECURSIVE DijkstraLoop(_, _, _, _, _)
\* while let Some(..) = next.pop()
DijkstraLoop(env, valid, g, only_closest_goal, st) ==
    IF st.next = <<>> THEN st
    ELSE LET Again(st1) ==
                 IF st1.panic \/ DijkstraBreaks(only_closest_goal, st) THEN st1
                 ELSE DijkstraLoop(env, valid, g, only_closest_goal, st1)
         IN Again(DijkstraBody(env, valid, g, only_closest_goal, st))

\* grid::dijkstra_search(neighborhood, valid, get_cost, start, goals, only_closest_goal):
\* [panic, paths] with paths a map reached goal -> Path
dijkstra_search(env, valid, g, start, goals, only_closest_goal) ==
    DijkstraResult(start, DijkstraLoop(env, valid, g, only_closest_goal,
                                       DijkstraStart(Points(env), start, goals)))

-----------------------------------------------------------------------------
(* path_cache/path_segment.rs *)

\* PathSegment::new(path, known)
SegNew(path, known) ==
    IF known THEN [known |-> TRUE, path |-> path]
    ELSE [known |-> FALSE, start |-> PathAt(path, 0),
          end |-> PathAt(path, PathLen(path) - 1), cost |-> path.cost,
          len |-> PathLen(path)]

SegCost(seg) == IF seg.known THEN seg.path.cost ELSE seg.cost

SegLen(seg) == IF seg.known THEN PathLen(seg.path) ELSE seg.len

SegStart(seg) == IF seg.known THEN PathAt(seg.path, 0) ELSE seg.start

SegEnd(seg) == IF seg.known THEN PathAt(seg.path, PathLen(seg.path) - 1) ELSE seg.end

SegReversed(seg, start_cost, end_cost) ==
    IF seg.known THEN [known |-> TRUE, path |-> PathReversed(seg.path, start_cost, end_cost)]
    ELSE [known |-> FALSE, start |-> seg.end, end |-> seg.start,
          cost |-> seg.cost + end_cost - start_cost, len |-> seg.len]

-----------------------------------------------------------------------------
(* graph/node.rs and graph/node_map.rs *)

NoEdges == [i \in {} |-> 0]

NodeNew(id, pos, walk_cost) ==
    [id |-> id, pos |-> pos, walk_cost |-> walk_cost, edges |-> NoEdges]

NodeMapNew(env) == [nodes |-> <<>>, pos_map |-> [p \in Points(env) |-> None], next_id |-> 0]

\* impl Index<NodeID> for NodeMap
NodeOf(nm, id) == At(nm.nodes, id)[1]

IsLive(nm, id) == id >= 0 /\ id < Len(nm.nodes) /\ At(nm.nodes, id) # None

\* NodeMap::keys
Keys(nm) == {id \in 0..(Len(nm.nodes) - 1) : At(nm.nodes, id) # None}

id_at(nm, pos) == nm.pos_map[pos]

\* HashMap::insert on an edge map
EdgesInsert(edges, k, v) ==
    [x \in (DOMAIN edges) \cup {k} |-> IF x = k THEN v ELSE edges[x]]

\* HashMap::remove on an edge map
EdgesRemove(edges, k) == [x \in (DOMAIN edges) \ {k} |-> edges[x]]

RECURSIVE SkipLive(_, _)
\* while self.next_id < self.nodes.len() && self.nodes[self.next_id].is_some()
SkipLive(nm, next_id) ==
    IF next_id < Len(nm.nodes) /\ At(nm.nodes, next_id) # None
    THEN SkipLive(nm, next_id + 1)
    ELSE next_id

\* add_node that hands out the id below next_id
AddNodeId_previous(nm) == Max(0, nm.next_id - 1)

\* NodeMap::add_node: the id the call returns
AddNodeId(nm) == SkipLive(nm, nm.next_id)

\* NodeMap::add_node: the map after the call
add_node(nm, pos, walk_cost) ==
    LET raw_id == AddNodeId(nm)
        node == NodeNew(raw_id, pos, walk_cost)
    IN [nodes |-> IF raw_id >= Len(nm.nodes)
                  THEN Append(nm.nodes, Some(node))
                  ELSE [nm.nodes EXCEPT ![raw_id + 1] = Some(node)],
        pos_map |-> [q \in DOMAIN nm.pos_map |->
                      IF q = pos THEN Some(raw_id) ELSE nm.pos_map[q]],
        next_id |-> raw_id + 1]

\* add_edge that gives the edge of the target the cost of the edge of the source
add_edge_same_cost(nm, src, target, path) ==
    LET other_path == SegReversed(path, 0, 0)
        n1 == [nm.nodes EXCEPT ![target + 1] =
                  Some([@[1] EXCEPT !.edges = EdgesInsert(@, src, other_path)])]
        n2 == [n1 EXCEPT ![src + 1] =
                  Some([@[1] EXCEPT !.edges = EdgesInsert(@, target, path)])]
    IN [nm EXCEPT !.nodes = n2]

\* NodeMap::add_edge
add_edge(nm, src, target, path) ==
    LET src_cost == NodeOf(nm, src).walk_cost
        target_cost == NodeOf(nm, target).walk_cost
        other_path == SegReversed(path, src_cost, target_cost)
        n1 == [nm.nodes EXCEPT ![target + 1] =
                  Some([@[1] EXCEPT !.edges = EdgesInsert(@, src, other_path)])]
        n2 == [n1 EXCEPT ![src + 1] =
                  Some([@[1] EXCEPT !.edges = EdgesInsert(@, target, path)])]
    IN [nm EXCEPT !.nodes = n2]

\* std::usize::MAX, as far as the integers of the checker reach
UsizeMax == 2147483647

\* path_cache::node_map::NodeMap::add_edge without the assertion on the source
CacheNodeMapAddEdge_unchecked(nm, src, target, path) ==
    [panic |-> FALSE,
     nm |-> [nm EXCEPT
               !.nodes[target + 1] =
                  Some([@[1] EXCEPT !.edges =
                     EdgesInsert(@, src,
                        IF NodeOf(nm, target).walk_cost >= 0
                        THEN SegReversed(path, NodeOf(nm, src).walk_cost,
                                         NodeOf(nm, target).walk_cost)
                        ELSE [known |-> FALSE, start |-> NodeOf(nm, src).pos,
                              end |-> NodeOf(nm, target).pos, cost |-> UsizeMax,
                              len |-> UsizeMax])]),
               !.nodes[src + 1] =
                  Some([@[1] EXCEPT !.edges = EdgesInsert(@, target, path)])]]

\* path_cache::node_map::NodeMap::add_edge, on nodes whose walk cost is an
\* isize: [panic, nm] after the call
CacheNodeMapAddEdge(nm, src, target, path) ==
    IF ~(NodeOf(nm, src).walk_cost >= 0)
    THEN [panic |-> TRUE, nm |-> nm]
    ELSE [panic |-> FALSE,
          nm |-> [nm EXCEPT
                    !.nodes[target + 1] =
                       Some([@[1] EXCEPT !.edges =
                          EdgesInsert(@, src,
                             IF NodeOf(nm, target).walk_cost >= 0
                             THEN SegReversed(path, NodeOf(nm, src).walk_cost,
                                              NodeOf(nm, target).walk_cost)
                             ELSE [known |-> FALSE, start |-> NodeOf(nm, src).pos,
                                   end |-> NodeOf(nm, target).pos, cost |-> UsizeMax,
                                   len |-> UsizeMax])]),
                    !.nodes[src + 1] =
                       Some([@[1] EXCEPT !.edges = EdgesInsert(@, target, path)])]]

\* NodeList::add_edge without the test for an edge of the same cost
NodeListAddEdge_always(nl, src, target, path) == add_edge(nl, src, target, path)

\* NodeList::add_edge: NodeMap::add_edge behind the test for an edge of the
\* same cost
NodeListAddEdge(nl, src, target, path) ==
    IF /\ target \in DOMAIN NodeOf(nl, src).edges
       /\ SegCost(NodeOf(nl, src).edges[target]) = SegCost(path)
    THEN nl
    ELSE add_edge(nl, src, target, path)

RECURSIVE ForgetEdges(_, _, _)
\* for (other_id, _) in node.edges { self[other_id].edges.remove(&id) }
ForgetEdges(ns, peers, id) ==
    IF peers = <<>> THEN ns
    ELSE LET i == Head(peers) + 1
         IN ForgetEdges(IF ns[i] # None
                        THEN [ns EXCEPT ![i] = Some([ns[i][1] EXCEPT
                                                       !.edges = EdgesRemove(@, id)])]
                        ELSE ns,
                        Tail(peers), id)

\* remove_node that leaves the edges of the peers as they are
remove_node_keeps_edges(nm, id) ==
    [nodes |-> [nm.nodes EXCEPT ![id + 1] = None],
     pos_map |-> [q \in DOMAIN nm.pos_map |->
                    IF q = NodeOf(nm, id).pos THEN None ELSE nm.pos_map[q]],
     next_id |-> nm.next_id]

\* remove_node that leaves the entry of the position in pos_map
remove_node_keeps_index(nm, id) ==
    LET node == NodeOf(nm, id)
        peers == SortedBy(DOMAIN node.edges, [i \in DOMAIN node.edges |-> i])
    IN [nodes |-> ForgetEdges([nm.nodes EXCEPT ![id + 1] = None], peers, id),
        pos_map |-> nm.pos_map,
        next_id |-> nm.next_id]

\* NodeMap::remove_node
remove_node(nm, id) ==
    LET node == NodeOf(nm, id)
        peers == SortedBy(DOMAIN node.edges, [i \in DOMAIN node.edges |-> i])
    IN [nodes |-> ForgetEdges([nm.nodes EXCEPT ![id + 1] = None], peers, id),
        pos_map |-> [q \in DOMAIN nm.pos_map |->
                       IF q = node.pos THEN None ELSE nm.pos_map[q]],
        next_id |-> nm.next_id]

\* the remap that leaves every edge key as it was in the absorbed map
Remapped_same(map, other_id) == other_id

\* an edge key of the absorbed map under the id remap of absorb
Remapped(map, other_id) == IF other_id \in DOMAIN map THEN map[other_id] ELSE other_id

\* NodeMap::absorb, the edges of one old node collected into a new HashMap:
\* of two keys that remap to one id, the later of the iteration stays
RemapEdges(env, edges, map) ==
    LET order == IterIds(env, DOMAIN edges)
        last(k) == CHOOSE i \in 1..Len(order) :
                     /\ Remapped(map, order[i]) = k
                     /\ \A j \in 1..Len(order) : Remapped(map, order[j]) = k => j <= i
    IN [k \in {Remapped(map, other_id) : other_id \in DOMAIN edges} |-> edges[order[last(k)]]]

RECURSIVE AbsorbNodes(_, _, _)
\* NodeMap::absorb, first loop: for node in other.nodes.iter().flatten()
AbsorbNodes(other, i, acc) ==
    IF i >= Len(other.nodes) THEN acc
    ELSE IF At(other.nodes, i) = None THEN AbsorbNodes(other, i + 1, acc)
    ELSE LET node == At(other.nodes, i)[1]
         IN AbsorbNodes(other, i + 1,
                        [nm |-> add_node(acc.nm, node.pos, node.walk_cost),
                         map |-> EdgesInsert(acc.map, node.id, AddNodeId(acc.nm)),
                         ret |-> acc.ret \cup {AddNodeId(acc.nm)}])

RECURSIVE AbsorbEdges(_, _, _, _, _)
\* NodeMap::absorb, second loop: for old_node in other.nodes.into_iter().flatten()
AbsorbEdges(env, nm, other, map, i) ==
    IF i >= Len(other.nodes) THEN nm
    ELSE IF At(other.nodes, i) = None THEN AbsorbEdges(env, nm, other, map, i + 1)
    ELSE LET old_node == At(other.nodes, i)[1]
         IN AbsorbEdges(env,
                        [nm EXCEPT !.nodes[map[old_node.id] + 1] =
                           Some([@[1] EXCEPT !.edges = RemapEdges(env, old_node.edges, map)])],
                        other, map, i + 1)

\* absorb that adds the nodes and leaves out their edges
absorb_nodes_only(env, nm, other) ==
    LET Edges(first) == [nm |-> first.nm, ret |-> first.ret]
    IN Edges(AbsorbNodes(other, 0, [nm |-> nm, map |-> NoEdges, ret |-> {}]))

\* NodeMap::absorb: [nm, ret], the map after the call and the new ids
absorb(env, nm, other) ==
    LET Edges(first) ==
            [nm |-> AbsorbEdges(env, first.nm, other, first.map, 0), ret |-> first.ret]
    IN Edges(AbsorbNodes(other, 0, [nm |-> nm, map |-> NoEdges, ret |-> {}]))

\* self.nodes[id].edges.clear()
ClearEdges(nm, id) ==
    [nm EXCEPT !.nodes = [@ EXCEPT ![id + 1] = Some([@[1] EXCEPT !.edges = NoEdges])]]

-----------------------------------------------------------------------------
(* path_cache/chunk.rs *)

ChunkTop(c) == c.pos[2]
ChunkRight(c) == c.pos[1] + c.size[1]
ChunkBottom(c) == c.pos[2] + c.size[2]
ChunkLeft(c) == c.pos[1]

in_chunk(c, point) ==
    /\ point[1] >= ChunkLeft(c)
    /\ point[1] < ChunkRight(c)
    /\ point[2] >= ChunkTop(c)
    /\ point[2] < ChunkBottom(c)

\* the closure |p| self.in_chunk(p) as the set of points it accepts
ChunkValid(env, c) == {p \in Points(env) : in_chunk(c, p)}

\* the closure |_| true
AllValid(env) == Points(env)

at_side(c, point, side) ==
    CASE side = UP -> point[2] = ChunkTop(c)
      [] side = RIGHT -> point[1] = ChunkRight(c) - 1
      [] side = DOWN -> point[2] = ChunkBottom(c) - 1
      [] side = LEFT -> point[1] = ChunkLeft(c)

is_corner(c, point) ==
    Cardinality({dir \in 0..3 : At(c.sides, dir) /\ at_side(c, point, dir)}) = 2

RECURSIVE GapMinima(_, _, _, _, _)
\* the scan of a gap's interior for cells cheaper than the running minimum
GapMinima(cellAt, total_cost, gi, gap_end, min) ==
    IF gi >= gap_end THEN {}
    ELSE IF total_cost[gi] < min
         THEN {cellAt[gi]} \cup GapMinima(cellAt, total_cost, gi + 1, gap_end, total_cost[gi])
         ELSE GapMinima(cellAt, total_cost, gi + 1, gap_end, min)

\* the candidates one gap (gap_start..gap_end, inclusive) contributes
GapCandidates(env, cellAt, total_cost, gap_start, gap_end) ==
    LET gap_len == gap_end - gap_start + 1
        gap_start_pos == cellAt[gap_start]
        gap_end_pos == cellAt[gap_end]
        ends == {gap_start_pos, gap_end_pos}
    IN IF env.config.perfect_paths
       THEN ends \cup {cellAt[i] : i \in (gap_start + 1)..(gap_end - 1)}
       ELSE ends
            \cup (IF gap_len > 2
                  THEN GapMinima(cellAt, total_cost, gap_start + 1, gap_end,
                                 Min(total_cost[gap_start], total_cost[gap_end]))
                  ELSE {})
            \cup (IF gap_len > 6
                  THEN {<<(gap_start_pos[1] + gap_end_pos[1]) \div 2,
                          (gap_start_pos[2] + gap_end_pos[2]) \div 2>>}
                  ELSE {})

RECURSIVE SideLoop(_, _, _, _, _, _, _, _)
\* for i in 0..length, with has_gap and gap_start carried along
SideLoop(env, cellAt, solid, total_cost, length, i, gapst, cands) ==
    IF i >= length THEN cands
    ELSE LET is_last == i = length - 1
             has_gap1 == gapst.has_gap \/ ~solid[i]
             gap_start1 == IF ~solid[i] /\ ~gapst.has_gap THEN i ELSE gapst.gap_start
             closes == (solid[i] \/ is_last) /\ has_gap1
             gap_end == IF solid[i] THEN i - 1 ELSE i
         IN IF closes
            THEN SideLoop(env, cellAt, solid, total_cost, length, i + 1,
                          [has_gap |-> FALSE, gap_start |-> gap_start1],
                          cands \cup GapCandidates(env, cellAt, total_cost, gap_start1, gap_end))
            ELSE SideLoop(env, cellAt, solid, total_cost, length, i + 1,
                          [has_gap |-> has_gap1, gap_start |-> gap_start1], cands)

\* Chunk::calculate_side_nodes: the points the call inserts into candidates
calculate_side_nodes(env, c, dir, g) ==
    LET total_size == <<env.width, env.height>>
        current == At(<< <<c.pos[1], c.pos[2]>>,
                         <<c.pos[1] + c.size[1] - 1, c.pos[2]>>,
                         <<c.pos[1], c.pos[2] + c.size[2] - 1>>,
                         <<c.pos[1], c.pos[2]>> >>, dir)
        next_dir == IF DirIsVertical(dir) THEN RIGHT ELSE DOWN
        length == IF DirIsVertical(dir) THEN c.size[1] ELSE c.size[2]
    IN IF get_in_dir(current, dir, <<0, 0>>, total_size) = None THEN {}
       ELSE LET opposite(p) == get_in_dir(p, dir, <<0, 0>>, total_size)[1]
                Scan(cellAt, costs) ==
                    LET solid == [i \in 0..(length - 1) |-> costs[i][1] < 0 \/ costs[i][2] < 0]
                        total_cost == [i \in 0..(length - 1) |-> costs[i][1] + costs[i][2]]
                    IN SideLoop(env, cellAt, solid, total_cost, length, 0,
                                [has_gap |-> FALSE, gap_start |-> 0], {})
                Cells(cellAt) ==
                    Scan(cellAt,
                         [i \in 0..(length - 1) |-> <<g[cellAt[i]], g[opposite(cellAt[i])]>>])
            IN Cells([i \in 0..(length - 1) |->
                        jump_in_dir(current, next_dir, i, c.pos, c.size)[1]])

\* Chunk::find_paths
ChunkFindPaths(env, c, start, goals, g) ==
    IF ~in_chunk(c, start) THEN [panic |-> FALSE, paths |-> [q \in {} |-> NoPath.path]]
    ELSE dijkstra_search(env, ChunkValid(env, c), g, start, goals, FALSE)

\* Chunk::find_path
ChunkFindPath(env, c, start, goal, g) ==
    IF ~in_chunk(c, start) \/ ~in_chunk(c, goal) THEN NoPath
    ELSE a_star_search(env, ChunkValid(env, c), g, start, goal)

RECURSIVE AddEdgesOf(_, _, _, _, _)
\* for (other_pos, path) in paths { all_nodes.add_edge(id, other_id, ..) }
AddEdgesOf(env, nm, id, paths, order) ==
    IF order = <<>> THEN nm
    ELSE LET other_pos == Head(order)
             other_id == id_at(nm, other_pos)[1]
         IN AddEdgesOf(env, add_edge(nm, id, other_id, SegNew(paths[other_pos], env.config.cache_paths)),
                       id, paths, Tail(order))

RECURSIVE AddNodesLoop(_, _, _, _, _, _, _)
\* for (i, &id) in to_visit.iter().enumerate()
AddNodesLoop(env, c, to_visit, points, g, i, nm) ==
    IF i >= Len(to_visit) THEN nm
    ELSE LET id == At(to_visit, i)
             point == At(points, i)
             remaining == SubSeq(points, i + 2, Len(points))
             Connect(paths) ==
                 AddNodesLoop(env, c, to_visit, points, g, i + 1,
                              AddEdgesOf(env, nm, id, paths, IterPoints(env, DOMAIN paths)))
         IN Connect(ChunkFindPaths(env, c, point, remaining, g).paths)

\* Chunk::add_nodes: [chunk, nodes] after the call
add_nodes(env, c, to_visit, g, nm) ==
    LET old == IterIds(env, c.nodes)
        ids == to_visit \o old
        points == [i \in 1..Len(ids) |-> NodeOf(nm, ids[i]).pos]
    IN [chunk |-> [c EXCEPT !.nodes = @ \cup {to_visit[i] : i \in 1..Len(to_visit)}],
        nodes |-> AddNodesLoop(env, c, to_visit, points, g, 0, nm)]

RECURSIVE AddNodesAt(_, _, _)
\* candidates.into_iter().map(|p| all_nodes.add_node(p, get_cost(p) as usize)):
\* [ids, nodes] after the calls
AddNodesAt(nm, ps, g) ==
    IF ps = <<>> THEN [ids |-> <<>>, nodes |-> nm]
    ELSE LET id == AddNodeId(nm)
             Cons(r) == [ids |-> <<id>> \o r.ids, nodes |-> r.nodes]
         IN Cons(AddNodesAt(add_node(nm, Head(ps), g[Head(ps)]), Tail(ps), g))

\* the sides of a chunk that are shared with another chunk
ChunkSides(env, pos, size) ==
    LET c == [pos |-> pos, size |-> size]
    IN [i \in 1..4 |->
          ~ (\/ (i - 1 = UP /\ ChunkTop(c) = 0)
             \/ (i - 1 = RIGHT /\ ChunkRight(c) = env.width)
             \/ (i - 1 = DOWN /\ ChunkBottom(c) = env.height)
             \/ (i - 1 = LEFT /\ ChunkLeft(c) = 0))]

\* Chunk::new: [chunk, nodes] after the call
ChunkNew(env, pos, size, g, nm) ==
    LET c0 == [pos |-> pos, size |-> size, nodes |-> {}, sides |-> ChunkSides(env, pos, size)]
        candidates == UNION {IF At(c0.sides, dir) THEN calculate_side_nodes(env, c0, dir, g) ELSE {}
                             : dir \in 0..3}
        Connect(added) == add_nodes(env, c0, added.ids, g, added.nodes)
    IN Connect(AddNodesAt(nm, IterPoints(env, candidates), g))

\* Chunk::nearest_node: [found, id, path, panic]
nearest_node(env, c, nm, start, g, reverse) ==
    LET start_cost == g[start]
        none == [found |-> FALSE, id |-> 0, path |-> NoPath.path, panic |-> FALSE]
    IN IF start_cost < 0
       THEN IF ~reverse THEN none
            ELSE LET FindMap(order) ==
                         LET First(hit) ==
                                 IF hit = {} THEN none
                                 ELSE LET First1(i) ==
                                              [found |-> TRUE, id |-> order[i],
                                               path |-> ChunkFindPath(env, c, NodeOf(nm, order[i]).pos,
                                                                      start, g).path,
                                               panic |-> FALSE]
                                      IN First1(CHOOSE i \in hit : \A j \in hit : i <= j)
                         IN First({i \in 1..Len(order) :
                                     ChunkFindPath(env, c, NodeOf(nm, order[i]).pos, start, g).found})
                 IN FindMap(IterIds(env, c.nodes))
       ELSE LET Closest(order, points) ==
                    LET Entry(res, point) ==
                            LET Node(id, path) ==
                                    [found |-> TRUE, id |-> id,
                                     path |-> IF reverse
                                              THEN PathReversed(path, start_cost, NodeOf(nm, id).walk_cost)
                                              ELSE path,
                                     panic |-> FALSE]
                            IN Node(order[CHOOSE i \in 1..Len(order) : points[i] = point],
                                    res.paths[point])
                        Next1(res) ==
                            IF res.panic THEN [none EXCEPT !.panic = TRUE]
                            ELSE IF DOMAIN res.paths = {} THEN none
                            ELSE Entry(res, CHOOSE p \in DOMAIN res.paths : TRUE)
                    IN Next1(dijkstra_search(env, ChunkValid(env, c), g, start, points, TRUE))
                Nodes(order) == Closest(order, [i \in 1..Len(order) |-> NodeOf(nm, order[i]).pos])
            IN Nodes(IterIds(env, c.nodes))

-----------------------------------------------------------------------------
(* graph/a_star.rs and graph/dijkstra.rs: searches over the abstract graph *)

Ids(nm) == 0..(Len(nm.nodes) - 1)

RECURSIVE GraphAStarVisit(_, _, _, _, _, _)
\* for (&other_id, path) in current.edges.iter()
GraphAStarVisit(env, nm, current_id, current_cost, order, st) ==
    IF order = <<>> THEN st
    ELSE LET other_id == Head(order)
             current == NodeOf(nm, current_id)
             other == NodeOf(nm, other_id)
             other_cost == current_cost + SegCost(current.edges[other_id])
             prev == st.visited[other_id]
             needs_visit == IF prev # None THEN prev[1] > other_cost ELSE TRUE
         IN IF needs_visit
            THEN GraphAStarVisit(env, nm, current_id, current_cost, Tail(order),
                   [st EXCEPT
                      !.visited = [@ EXCEPT ![other_id] = <<other_cost, current_id>>],
                      !.next = HeapPush(@, [id |-> other_id, cost |-> other_cost,
                                            key |-> other_cost + heuristic(env, current.pos, other.pos)])])
            ELSE GraphAStarVisit(env, nm, current_id, current_cost, Tail(order), st)

\* the body of the loop for the entry that next.pop() hands out
GraphAStarBody(env, nm, goal, st) ==
    LET e == HeapTop(st.next)
        Body(popped) ==
            IF e.id = goal THEN popped
            ELSE IF e.cost > st.visited[e.id][1] THEN popped
            ELSE IF e.cost < st.visited[e.id][1] THEN [popped EXCEPT !.panic = TRUE]
            ELSE GraphAStarVisit(env, nm, e.id, e.cost,
                                 IterIds(env, DOMAIN NodeOf(nm, e.id).edges), popped)
    IN Body([st EXCEPT !.next = HeapPop(@)])

RECURSIVE GraphAStarLoop(_, _, _, _)
\* while let Some(..) = next.pop()
GraphAStarLoop(env, nm, goal, st) ==
    IF st.next = <<>> THEN st
    ELSE LET Again(st1) ==
                 IF st1.panic \/ AStarBreaks(goal, st) THEN st1
                 ELSE GraphAStarLoop(env, nm, goal, st1)
         IN Again(GraphAStarBody(env, nm, goal, st))

\* graph::a_star_search(nodes, start, goal, neighborhood): a Path<NodeID>
graph_a_star_search(env, nm, start, goal) ==
    IF start = goal THEN FoundPath(PathNew(<<start, start>>, 0))
    ELSE AStarResult(start, goal,
                     GraphAStarLoop(env, nm, goal, AStarStart(Ids(nm), start)))

RECURSIVE GraphDijkstraVisit(_, _, _, _, _)
GraphDijkstraVisit(nm, current_id, current_cost, order, st) ==
    IF order = <<>> THEN st
    ELSE LET other_id == Head(order)
             other_cost == current_cost + SegCost(NodeOf(nm, current_id).edges[other_id])
             prev == st.visited[other_id]
             needs_visit == IF prev # None THEN prev[1] > other_cost ELSE TRUE
         IN IF needs_visit
            THEN GraphDijkstraVisit(nm, current_id, current_cost, Tail(order),
                   [st EXCEPT
                      !.visited = [@ EXCEPT ![other_id] = <<other_cost, current_id>>],
                      !.next = HeapPush(@, [id |-> other_id, cost |-> other_cost,
                                            key |-> other_cost])])
            ELSE GraphDijkstraVisit(nm, current_id, current_cost, Tail(order), st)

\* the body of the loop for the entry that next.pop() hands out
GraphDijkstraBody(env, nm, only_closest_goal, st) ==
    LET e == HeapTop(st.next)
        is_goal == e.id \in st.remaining_goals
        Expand(st1) ==
            IF is_goal /\ (only_closest_goal \/ st1.remaining_goals = {})
            THEN st1
            ELSE GraphDijkstraVisit(nm, e.id, e.cost,
                                    IterIds(env, DOMAIN NodeOf(nm, e.id).edges), st1)
        Body(popped) ==
            IF e.cost > st.visited[e.id][1] THEN popped
            ELSE IF e.cost < st.visited[e.id][1] THEN [popped EXCEPT !.panic = TRUE]
            ELSE Expand(IF is_goal
                        THEN [popped EXCEPT !.remaining_goals = @ \ {e.id},
                                            !.goal_costs = Append(@, <<e.id, e.cost>>)]
                        ELSE popped)
    IN Body([st EXCEPT !.next = HeapPop(@)])

RECURSIVE GraphDijkstraLoop(_, _, _, _)
\* while let Some(..) = next.pop()
GraphDijkstraLoop(env, nm, only_closest_goal, st) ==
    IF st.next = <<>> THEN st
    ELSE LET Again(st1) ==
                 IF st1.panic \/ DijkstraBreaks(only_closest_goal, st) THEN st1
                 ELSE GraphDijkstraLoop(env, nm, only_closest_goal, st1)
         IN Again(GraphDijkstraBody(env, nm, only_closest_goal, st))

\* graph::dijkstra_search(nodes, start, goals, only_closest_goal):
\* [panic, paths] with paths a map reached goal id -> Path<NodeID>
graph_dijkstra_search(env, nm, start, goals, only_closest_goal) ==
    DijkstraResult(start, GraphDijkstraLoop(env, nm, only_closest_goal,
                                            DijkstraStart(Ids(nm), start, goals)))

-----------------------------------------------------------------------------
(* path_cache/abstract_path.rs *)

\* AbstractPath::new(start)
APNew(start) ==
    [total_cost |-> 0, path |-> <<>>, end |-> start, current_index |-> <<0, 1>>]

\* AbstractPath::from_known_path(path)
APFromKnownPath(path) ==
    [total_cost |-> path.cost, path |-> <<SegNew(path, TRUE)>>,
     end |-> PathAt(path, PathLen(path) - 1), current_index |-> <<0, 1>>]

\* the assertion of add_path_segment: self.end == path.start()
APCanAddSegment(ap, seg) == ap.end = SegStart(seg)

\* AbstractPath::add_path_segment
APAddPathSegment(ap, seg) ==
    [ap EXCEPT !.total_cost = @ + SegCost(seg), !.end = SegEnd(seg),
               !.path = Append(@, seg)]

\* AbstractPath::add_path
APAddPath(ap, path) ==
    [ap EXCEPT !.total_cost = @ + path.cost, !.end = PathAt(path, PathLen(path) - 1),
               !.path = Append(@, SegNew(path, TRUE))]

\* add_node that appends the segment and leaves total_cost as it was
APAddNode_without_cost(ap, node, cost, len) ==
    [ap EXCEPT !.end = node,
               !.path = Append(@, [known |-> FALSE, start |-> ap.end, end |-> node,
                                   cost |-> cost, len |-> len])]

\* AbstractPath::add_node(node, cost, len)
APAddNode(ap, node, cost, len) ==
    [ap EXCEPT !.total_cost = @ + cost, !.end = node,
               !.path = Append(@, [known |-> FALSE, start |-> ap.end, end |-> node,
                                   cost |-> cost, len |-> len])]

\* AbstractPath::cost
APCost(ap) == ap.total_cost

\* next that ends the iteration at a segment that is not Known
APNext_ends(ap) ==
    IF ap.current_index[1] >= Len(ap.path)
    THEN [panic |-> FALSE, item |-> None, ap |-> ap]
    ELSE LET current == At(ap.path, ap.current_index[1])
         IN IF ~current.known THEN [panic |-> FALSE, item |-> None, ap |-> ap]
            ELSE IF ap.current_index[2] >= PathLen(current.path)
            THEN [panic |-> TRUE, item |-> None, ap |-> ap]
            ELSE LET ret == PathAt(current.path, ap.current_index[2])
                     i1 == ap.current_index[2] + 1
                 IN [panic |-> FALSE, item |-> Some(ret),
                     ap |-> [ap EXCEPT !.current_index =
                               IF i1 >= PathLen(current.path)
                               THEN <<ap.current_index[1] + 1, 1>>
                               ELSE <<ap.current_index[1], i1>>]]

\* Iterator::next: [panic, item (an Option), ap]
APNext(ap) ==
    IF ap.current_index[1] >= Len(ap.path)
    THEN [panic |-> FALSE, item |-> None, ap |-> ap]
    ELSE LET current == At(ap.path, ap.current_index[1])
         IN IF ~current.known THEN [panic |-> TRUE, item |-> None, ap |-> ap]
            ELSE IF ap.current_index[2] >= PathLen(current.path)
            THEN [panic |-> TRUE, item |-> None, ap |-> ap]
            ELSE LET ret == PathAt(current.path, ap.current_index[2])
                     i1 == ap.current_index[2] + 1
                 IN [panic |-> FALSE, item |-> Some(ret),
                     ap |-> [ap EXCEPT !.current_index =
                               IF i1 >= PathLen(current.path)
                               THEN <<ap.current_index[1] + 1, 1>>
                               ELSE <<ap.current_index[1], i1>>]]

\* AbstractPath::safe_next(get_cost): [panic, item (an Option), ap]
APSafeNext(env, ap, g) ==
    IF ap.current_index[1] >= Len(ap.path)
    THEN [panic |-> FALSE, item |-> None, ap |-> ap]
    ELSE LET seg0 == At(ap.path, ap.current_index[1])
             idx == IF seg0.known THEN ap.current_index[2] ELSE 1
             i1 == idx + 1
             Item(current, ap1) ==
                 IF idx >= PathLen(current.path)
                 THEN [panic |-> TRUE, item |-> None, ap |-> ap1]
                 ELSE [panic |-> FALSE, item |-> Some(PathAt(current.path, idx)),
                       ap |-> [ap1 EXCEPT !.current_index =
                                 IF i1 >= PathLen(current.path)
                                 THEN <<ap.current_index[1] + 1, 0>>
                                 ELSE <<ap.current_index[1], i1>>]]
             Current(current) ==
                 Item(current, [ap EXCEPT !.path[ap.current_index[1] + 1] = current])
             Resolve(found) ==
                 IF ~seg0.known /\ ~found.found
                 THEN [panic |-> TRUE, item |-> None, ap |-> ap]
                 ELSE Current(IF seg0.known THEN seg0 ELSE SegNew(found.path, TRUE))
         IN Resolve(IF seg0.known THEN NoPath
                    ELSE a_star_search(env, AllValid(env), g, seg0.start, seg0.end))

-----------------------------------------------------------------------------
(* path_cache.rs: PathCache.  A cache value is [nodes, chunks]; width,     *)
(* height, neighborhood and config are the fields that never change.       *)

\* new_internal: (num_chunks, last size) along one dimension
NumChunks(env, dim) ==
    IF dim - (dim \div env.config.chunk_size) * env.config.chunk_size > 0
    THEN dim \div env.config.chunk_size + 1
    ELSE dim \div env.config.chunk_size

LastSize(env, dim) ==
    LET remain == dim - (dim \div env.config.chunk_size) * env.config.chunk_size
    IN IF remain > 0 THEN remain ELSE env.config.chunk_size

get_chunk_pos(env, point) ==
    <<(point[1] \div env.config.chunk_size) * env.config.chunk_size,
      (point[2] \div env.config.chunk_size) * env.config.chunk_size>>

\* get_chunk_index that multiplies the row by the number of chunk rows
get_chunk_index_by_height(env, point) ==
    (point[2] \div env.config.chunk_size) * NumChunks(env, env.height) + (point[1] \div env.config.chunk_size)

get_chunk_index(env, point) ==
    (point[2] \div env.config.chunk_size) * NumChunks(env, env.width) + (point[1] \div env.config.chunk_size)

get_chunk(env, cache, point) == At(cache.chunks, get_chunk_index(env, point))

\* same_chunk that compares the chunk rows only
same_chunk_row(env, a, b) ==
    a[2] \div env.config.chunk_size = b[2] \div env.config.chunk_size

\* same_chunk that compares the chunk columns only
same_chunk_column(env, a, b) ==
    a[1] \div env.config.chunk_size = b[1] \div env.config.chunk_size

same_chunk(env, a, b) ==
    /\ a[1] \div env.config.chunk_size = b[1] \div env.config.chunk_size
    /\ a[2] \div env.config.chunk_size = b[2] \div env.config.chunk_size

node_at(cache, pos) == id_at(cache.nodes, pos)

RECURSIVE ConnectNeighbors(_, _, _, _, _, _)
\* for &other_pos in target.iter()
ConnectNeighbors(env, nm, id, pos, cost, target) ==
    IF target = <<>> THEN nm
    ELSE LET other_pos == Head(target)
             other == id_at(nm, other_pos)
         IN IF other # None
            THEN ConnectNeighbors(env, 
                   add_edge(nm, id, other[1],
                            SegNew(PathNew(<<pos, other_pos>>, cost), env.config.cache_paths)),
                   id, pos, cost, Tail(target))
            ELSE ConnectNeighbors(env, nm, id, pos, cost, Tail(target))

RECURSIVE ConnectLoop(_, _, _)
\* for id in ids { let node = &self.nodes[id]; .. }: every caller hands ids
\* that are keys of nm, the index does not return for any other id
ConnectLoop(env, nm, ids) ==
    IF ids = <<>> \/ ~IsLive(nm, Head(ids)) THEN nm
    ELSE LET node == NodeOf(nm, Head(ids))
         IN ConnectLoop(env, ConnectNeighbors(env, nm, Head(ids), node.pos, node.walk_cost,
                                         get_all_neighbors(env, node.pos)),
                        Tail(ids))

\* PathCache::connect_nodes(ids): ids is None (all keys) or Some(set)
connect_nodes(env, nm, ids) ==
    ConnectLoop(env, nm, IF ids = None
                    THEN SortedBy(Keys(nm), [i \in Keys(nm) |-> i])
                    ELSE IterIds(env, ids[1]))

\* new_internal, sequential arm: the body of the loops over y and x for the
\* chunk that is pushed at index, [chunk, nodes] after Chunk::new
SequentialChunk(env, index, g, nm) ==
    LET x == index % NumChunks(env, env.width)
        y == index \div NumChunks(env, env.width)
        w == IF x = NumChunks(env, env.width) - 1 THEN LastSize(env, env.width) ELSE env.config.chunk_size
        h == IF y = NumChunks(env, env.height) - 1 THEN LastSize(env, env.height) ELSE env.config.chunk_size
    IN ChunkNew(env, <<x * env.config.chunk_size, y * env.config.chunk_size>>, <<w, h>>,
                g, nm)

RECURSIVE BuildChunks(_, _, _, _)
\* the sequential arm of new_internal: for y in 0..num_chunks_h, for x in 0..num_chunks_w
BuildChunks(env, index, g, acc) ==
    IF index >= NumChunks(env, env.width) * NumChunks(env, env.height) THEN acc
    ELSE LET Push(r) == BuildChunks(env, index + 1, g,
                                    [chunks |-> Append(acc.chunks, r.chunk), nodes |-> r.nodes])
         IN Push(SequentialChunk(env, index, g, acc.nodes))

\* PathCache::new_internal (sequential arm)
new_internal(env, g) ==
    LET Connect(built) ==
            [chunks |-> built.chunks, nodes |-> connect_nodes(env, built.nodes, None)]
    IN Connect(BuildChunks(env, 0, g, [chunks |-> <<>>, nodes |-> NodeMapNew(env)]))

\* new_internal, parallel arm: the closure that a worker runs for one index,
\* [chunk, nodes] with nodes the worker's own NodeMap
RawChunk(env, index, g) ==
    LET x == index % NumChunks(env, env.width)
        y == index \div NumChunks(env, env.width)
        w == IF x = NumChunks(env, env.width) - 1 THEN LastSize(env, env.width) ELSE env.config.chunk_size
        h == IF y = NumChunks(env, env.height) - 1 THEN LastSize(env, env.height) ELSE env.config.chunk_size
    IN ChunkNew(env, <<x * env.config.chunk_size, y * env.config.chunk_size>>, <<w, h>>,
                g, NodeMapNew(env))

RECURSIVE MergeChunks(_, _, _, _)
\* raw_chunks.into_iter().map(|(mut chunk, new_nodes)| chunk.nodes = nodes.absorb(new_nodes))
MergeChunks(env, raw, i, acc) ==
    IF i > Len(raw) THEN acc
    ELSE LET Absorbed(r) ==
                 MergeChunks(env, raw, i + 1,
                             [chunks |-> Append(acc.chunks, [raw[i].chunk EXCEPT !.nodes = r.ret]),
                              nodes |-> r.nm])
         IN Absorbed(absorb(env, acc.nodes, raw[i].nodes))

\* PathCache::new_internal (parallel arm), from the collected raw_chunks on
new_internal_parallel(env, raw) ==
    LET Connect(built) ==
            [chunks |-> built.chunks, nodes |-> connect_nodes(env, built.nodes, None)]
    IN Connect(MergeChunks(env, raw, 1, [chunks |-> <<>>, nodes |-> NodeMapNew(env)]))

\* PathCache::find_nearest_node: [found, id, path (an Option), panic]
find_nearest_node(env, cache, pos, g, reverse) ==
    IF node_at(cache, pos) # None
    THEN [found |-> TRUE, id |-> node_at(cache, pos)[1], path |-> None, panic |-> FALSE]
    ELSE LET Nearest(r) ==
                 [found |-> r.found, id |-> r.id, path |-> Some(r.path), panic |-> r.panic]
         IN Nearest(nearest_node(env, get_chunk(env, cache, pos), cache.nodes, pos, g, reverse))

\* PathCache::grid_a_star
grid_a_star(env, start, goal, g) == a_star_search(env, AllValid(env), g, start, goal)

NoAP == APNew(<<0, 0>>)

RECURSIVE ResolveSegs(_, _, _, _, _, _)
\* for (i, (a, b)) in path.iter().zip(path.iter().skip(1)).enumerate()
ResolveSegs(nm, path, i, skip_first, skip_last, acc) ==
    IF i >= PathLen(path) - 1 \/ acc.panic THEN acc
    ELSE IF (skip_first /\ i = 0) \/ (skip_last /\ i = PathLen(path) - 2)
    THEN ResolveSegs(nm, path, i + 1, skip_first, skip_last, acc)
    ELSE LET a == PathAt(path, i)
             b == PathAt(path, i + 1)
             edges == NodeOf(nm, a).edges
         IN IF b \notin DOMAIN edges \/ ~APCanAddSegment(acc.ap, edges[b])
            THEN [acc EXCEPT !.panic = TRUE]
            ELSE ResolveSegs(nm, path, i + 1, skip_first, skip_last,
                             [acc EXCEPT !.ap = APAddPathSegment(@, edges[b])])

\* the decisions skip_first and skip_last of resolve_paths for one goal: each
\* is None, or Some(the abstract segment that was dropped)
Skips(first, last) == [first |-> first, last |-> last]

NoSkips == [q \in {} |-> Skips(None, None)]

\* the body of the loop of resolve_paths for one goal: [panic, ap, skips]
ResolveOne(env, cache, start, start_path, goal, goal_id, goal_path, path, g) ==
    LET nm == cache.nodes
    IN IF PathLen(path) < 2
       THEN [panic |-> TRUE, ap |-> NoAP, skips |-> Skips(None, None)]
       ELSE LET after_start == NodeOf(nm, PathAt(path, 1)).pos
                skip_first == start_path # None /\ same_chunk(env, start, after_start)
                before_goal == NodeOf(nm, PathAt(path, PathLen(path) - 2)).pos
                skip_last == goal_path # None /\ same_chunk(env, goal, before_goal)
                edge(i) == Some(NodeOf(nm, PathAt(path, i)).edges[PathAt(path, i + 1)])
                Final(skips, direct, segs, last) ==
                    IF skip_first /\ ~direct.found
                    THEN [panic |-> TRUE, ap |-> NoAP, skips |-> skips]
                    ELSE IF segs.panic THEN [panic |-> TRUE, ap |-> NoAP, skips |-> skips]
                    ELSE IF skip_last /\ ~last.found
                    THEN [panic |-> TRUE, ap |-> NoAP, skips |-> skips]
                    ELSE [panic |-> FALSE,
                          ap |-> IF skip_last THEN APAddPath(segs.ap, last.path)
                                 ELSE IF goal_path # None THEN APAddPath(segs.ap, goal_path[1])
                                 ELSE segs.ap,
                          skips |-> skips]
                Segments(skips, direct, start_path1) ==
                    Final(skips, direct,
                          ResolveSegs(nm, path, 0, skip_first, skip_last,
                                      [panic |-> FALSE,
                                       ap |-> IF start_path1 # None
                                              THEN APFromKnownPath(start_path1[1])
                                              ELSE APNew(start)]),
                          IF skip_last
                          THEN ChunkFindPath(env, get_chunk(env, cache, before_goal),
                                             before_goal, goal, g)
                          ELSE NoPath)
                First(skips, direct) ==
                    Segments(skips, direct,
                             IF skip_first THEN Some(direct.path) ELSE start_path)
            IN First(Skips(IF skip_first THEN edge(0) ELSE None,
                           IF skip_last THEN edge(PathLen(path) - 2) ELSE None),
                     IF skip_first
                     THEN ChunkFindPath(env, get_chunk(env, cache, start), start,
                                        after_start, g)
                     ELSE NoPath)

NoPaths == [q \in {} |-> NoAP]

\* PointMap::insert
MapInsert(m, k, v) == [q \in (DOMAIN m) \cup {k} |-> IF q = k THEN v ELSE m[q]]

\* what a query hands back: whether it panicked, the paths by goal, and the
\* skip decisions taken for each goal
Answer(panic, paths, skips) == [panic |-> panic, paths |-> paths, skips |-> skips]

RECURSIVE ResolveLoop(_, _, _, _, _, _, _, _)
\* for (goal, goal_id, goal_path) in goal_data
ResolveLoop(env, cache, start, start_path, goal_data, paths, g, acc) ==
    IF goal_data = <<>> \/ acc.panic THEN acc
    ELSE LET gd == Head(goal_data)
         IN IF gd[2] \notin DOMAIN paths
            THEN ResolveLoop(env, cache, start, start_path, Tail(goal_data), paths, g, acc)
            ELSE LET Insert(r) ==
                         IF r.panic
                         THEN Answer(TRUE, NoPaths, MapInsert(acc.skips, gd[1], r.skips))
                         ELSE ResolveLoop(env, cache, start, start_path, Tail(goal_data), paths, g,
                                          Answer(FALSE, MapInsert(acc.paths, gd[1], r.ap),
                                                 MapInsert(acc.skips, gd[1], r.skips)))
                 IN Insert(ResolveOne(env, cache, start, start_path, gd[1], gd[2], gd[3],
                                      paths[gd[2]], g))

\* PathCache::resolve_paths
resolve_paths(env, cache, start, start_path, goal_data, paths, g) ==
    ResolveLoop(env, cache, start, start_path, goal_data, paths, g,
                Answer(FALSE, NoPaths, NoSkips))

\* an Option<(goal, AbstractPath)> as an Answer
AnswerNone == Answer(FALSE, NoPaths, NoSkips)
AnswerPanic == Answer(TRUE, NoPaths, NoSkips)
AnswerSome(goal, ap) == Answer(FALSE, MapInsert(NoPaths, goal, ap), NoSkips)

\* Option<Path>::map(AbstractPath::from_known_path)
AnswerOfSearch(goal, r) ==
    IF r.panic THEN AnswerPanic
    ELSE IF r.found THEN AnswerSome(goal, APFromKnownPath(r.path))
    ELSE AnswerNone

\* find_path that tests start = goal before it tests the cost of the start
find_path_goal_first(env, cache, start, goal, g) ==
    IF start = goal
    THEN AnswerSome(goal, APFromKnownPath(PathNew(<<start, start>>, 0)))
    ELSE IF g[start] < 0 THEN AnswerNone
    ELSE LET Along(s, gl, path) ==
                 IF path.panic THEN AnswerPanic
                 ELSE IF ~path.found THEN AnswerNone
                 ELSE IF PathLen(path.path) = 2
                         \/ (env.config.a_star_fallback /\ PathLen(path.path) <= 4)
                 THEN AnswerOfSearch(goal, grid_a_star(env, start, goal, g))
                 ELSE resolve_paths(env, cache, start, s.path,
                                    << <<goal, gl.id, gl.path>> >>,
                                    [i \in {gl.id} |-> path.path], g)
             ToGoal(s, gl) ==
                 IF gl.panic THEN AnswerPanic
                 ELSE IF ~gl.found THEN AnswerNone
                 ELSE Along(s, gl, graph_a_star_search(env, cache.nodes, s.id, gl.id))
             FromStart(s) ==
                 IF s.panic THEN AnswerPanic
                 ELSE IF ~s.found
                 THEN AnswerOfSearch(goal, ChunkFindPath(env, get_chunk(env, cache, start),
                                                         start, goal, g))
                 ELSE ToGoal(s, find_nearest_node(env, cache, goal, g, TRUE))
         IN FromStart(find_nearest_node(env, cache, start, g, FALSE))

\* find_path that returns the one-point path [start] for start = goal
find_path_one_point(env, cache, start, goal, g) ==
    IF g[start] < 0 THEN AnswerNone
    ELSE IF start = goal
    THEN AnswerSome(goal, APFromKnownPath(PathNew(<<start>>, 0)))
    ELSE LET Along(s, gl, path) ==
                 IF path.panic THEN AnswerPanic
                 ELSE IF ~path.found THEN AnswerNone
                 ELSE IF PathLen(path.path) = 2
                         \/ (env.config.a_star_fallback /\ PathLen(path.path) <= 4)
                 THEN AnswerOfSearch(goal, grid_a_star(env, start, goal, g))
                 ELSE resolve_paths(env, cache, start, s.path,
                                    << <<goal, gl.id, gl.path>> >>,
                                    [i \in {gl.id} |-> path.path], g)
             ToGoal(s, gl) ==
                 IF gl.panic THEN AnswerPanic
                 ELSE IF ~gl.found THEN AnswerNone
                 ELSE Along(s, gl, graph_a_star_search(env, cache.nodes, s.id, gl.id))
             FromStart(s) ==
                 IF s.panic THEN AnswerPanic
                 ELSE IF ~s.found
                 THEN AnswerOfSearch(goal, ChunkFindPath(env, get_chunk(env, cache, start),
                                                         start, goal, g))
                 ELSE ToGoal(s, find_nearest_node(env, cache, goal, g, TRUE))
         IN FromStart(find_nearest_node(env, cache, start, g, FALSE))

\* find_path that searches the chunk of a start without nodes only when
\* a_star_fallback is set
find_path_cave_needs_fallback(env, cache, start, goal, g) ==
    IF g[start] < 0 THEN AnswerNone
    ELSE IF start = goal
    THEN AnswerSome(goal, APFromKnownPath(PathNew(<<start, start>>, 0)))
    ELSE LET Along(s, gl, path) ==
                 IF path.panic THEN AnswerPanic
                 ELSE IF ~path.found THEN AnswerNone
                 ELSE IF PathLen(path.path) = 2
                         \/ (env.config.a_star_fallback /\ PathLen(path.path) <= 4)
                 THEN AnswerOfSearch(goal, grid_a_star(env, start, goal, g))
                 ELSE resolve_paths(env, cache, start, s.path,
                                    << <<goal, gl.id, gl.path>> >>,
                                    [i \in {gl.id} |-> path.path], g)
             ToGoal(s, gl) ==
                 IF gl.panic THEN AnswerPanic
                 ELSE IF ~gl.found THEN AnswerNone
                 ELSE Along(s, gl, graph_a_star_search(env, cache.nodes, s.id, gl.id))
             FromStart(s) ==
                 IF s.panic THEN AnswerPanic
                 ELSE IF ~s.found /\ ~env.config.a_star_fallback THEN AnswerNone
                 ELSE IF ~s.found
                 THEN AnswerOfSearch(goal, ChunkFindPath(env, get_chunk(env, cache, start),
                                                         start, goal, g))
                 ELSE ToGoal(s, find_nearest_node(env, cache, goal, g, TRUE))
         IN FromStart(find_nearest_node(env, cache, start, g, FALSE))

\* find_path that takes the grid search only as the configured fallback
find_path_fallback_only(env, cache, start, goal, g) ==
    IF g[start] < 0 THEN AnswerNone
    ELSE IF start = goal
    THEN AnswerSome(goal, APFromKnownPath(PathNew(<<start, start>>, 0)))
    ELSE LET Along(s, gl, path) ==
                 IF path.panic THEN AnswerPanic
                 ELSE IF ~path.found THEN AnswerNone
                 ELSE IF env.config.a_star_fallback /\ PathLen(path.path) <= 4
                 THEN AnswerOfSearch(goal, grid_a_star(env, start, goal, g))
                 ELSE resolve_paths(env, cache, start, s.path,
                                    << <<goal, gl.id, gl.path>> >>,
                                    [i \in {gl.id} |-> path.path], g)
             ToGoal(s, gl) ==
                 IF gl.panic THEN AnswerPanic
                 ELSE IF ~gl.found THEN AnswerNone
                 ELSE Along(s, gl, graph_a_star_search(env, cache.nodes, s.id, gl.id))
             FromStart(s) ==
                 IF s.panic THEN AnswerPanic
                 ELSE IF ~s.found
                 THEN AnswerOfSearch(goal, ChunkFindPath(env, get_chunk(env, cache, start),
                                                         start, goal, g))
                 ELSE ToGoal(s, find_nearest_node(env, cache, goal, g, TRUE))
         IN FromStart(find_nearest_node(env, cache, start, g, FALSE))

\* PathCache::find_path
find_path(env, cache, start, goal, g) ==
    IF g[start] < 0 THEN AnswerNone
    ELSE IF start = goal
    THEN AnswerSome(goal, APFromKnownPath(PathNew(<<start, start>>, 0)))
    ELSE LET Along(s, gl, path) ==
                 IF path.panic THEN AnswerPanic
                 ELSE IF ~path.found THEN AnswerNone
                 ELSE IF PathLen(path.path) = 2
                         \/ (env.config.a_star_fallback /\ PathLen(path.path) <= 4)
                 THEN AnswerOfSearch(goal, grid_a_star(env, start, goal, g))
                 ELSE resolve_paths(env, cache, start, s.path,
                                    << <<goal, gl.id, gl.path>> >>,
                                    [i \in {gl.id} |-> path.path], g)
             ToGoal(s, gl) ==
                 IF gl.panic THEN AnswerPanic
                 ELSE IF ~gl.found THEN AnswerNone
                 ELSE Along(s, gl, graph_a_star_search(env, cache.nodes, s.id, gl.id))
             FromStart(s) ==
                 IF s.panic THEN AnswerPanic
                 ELSE IF ~s.found
                 THEN AnswerOfSearch(goal, ChunkFindPath(env, get_chunk(env, cache, start),
                                                         start, goal, g))
                 ELSE ToGoal(s, find_nearest_node(env, cache, goal, g, TRUE))
         IN FromStart(find_nearest_node(env, cache, start, g, FALSE))

RECURSIVE GoalData(_, _, _, _, _)
\* the loop of find_paths_internal that resolves every goal to a node:
\* [panic, data] with data the goal_data vector
GoalData(env, cache, start, goals, g) ==
    IF goals = <<>> THEN [panic |-> FALSE, data |-> <<>>]
    ELSE LET goal == Head(goals)
             rest == GoalData(env, cache, start, Tail(goals), g)
         IN IF goal = start THEN rest
            ELSE LET Push(gl) ==
                         IF gl.panic THEN [panic |-> TRUE, data |-> <<>>]
                         ELSE IF ~gl.found THEN rest
                         ELSE [rest EXCEPT !.data = << <<goal, gl.id, gl.path>> >> \o @]
                 IN Push(find_nearest_node(env, cache, goal, g, TRUE))

\* find_paths_internal that sends a single goal through the abstract graph
\* like any other goal list
find_paths_internal_no_delegation(env, cache, start, goals, g, only_closest_goal) ==
    IF g[start] < 0 \/ goals = <<>> THEN AnswerNone
    ELSE LET InChunk(r) ==
                 Answer(r.panic, [q \in DOMAIN r.paths |-> APFromKnownPath(r.paths[q])], NoSkips)
             Along(s, gd, paths) ==
                 IF gd.panic \/ paths.panic THEN AnswerPanic
                 ELSE resolve_paths(env, cache, start, s.path, gd.data, paths.paths, g)
             ToGoals(s, gd) ==
                 Along(s, gd,
                       graph_dijkstra_search(env, cache.nodes, s.id,
                                             [i \in 1..Len(gd.data) |-> gd.data[i][2]],
                                             only_closest_goal))
             FromStart(s) ==
                 IF s.panic THEN AnswerPanic
                 ELSE IF ~s.found
                 THEN InChunk(ChunkFindPaths(env, get_chunk(env, cache, start), start, goals, g))
                 ELSE ToGoals(s, GoalData(env, cache, start, goals, g))
         IN FromStart(find_nearest_node(env, cache, start, g, FALSE))

\* PathCache::find_paths_internal
find_paths_internal(env, cache, start, goals, g, only_closest_goal) ==
    IF g[start] < 0 \/ goals = <<>> THEN AnswerNone
    ELSE IF Len(goals) = 1 THEN find_path(env, cache, start, goals[1], g)
    ELSE LET InChunk(r) ==
                 Answer(r.panic, [q \in DOMAIN r.paths |-> APFromKnownPath(r.paths[q])], NoSkips)
             Along(s, gd, paths) ==
                 IF gd.panic \/ paths.panic THEN AnswerPanic
                 ELSE resolve_paths(env, cache, start, s.path, gd.data, paths.paths, g)
             ToGoals(s, gd) ==
                 Along(s, gd,
                       graph_dijkstra_search(env, cache.nodes, s.id,
                                             [i \in 1..Len(gd.data) |-> gd.data[i][2]],
                                             only_closest_goal))
             FromStart(s) ==
                 IF s.panic THEN AnswerPanic
                 ELSE IF ~s.found
                 THEN InChunk(ChunkFindPaths(env, get_chunk(env, cache, start), start, goals, g))
                 ELSE ToGoals(s, GoalData(env, cache, start, goals, g))
         IN FromStart(find_nearest_node(env, cache, start, g, FALSE))

\* PathCache::find_paths
find_paths(env, cache, start, goals, g) ==
    find_paths_internal(env, cache, start, goals, g, FALSE)

\* PathCache::find_closest_goal: the Answer holds the one entry that
\* into_iter().next() takes, if there is one
find_closest_goal(env, cache, start, goals, g) ==
    LET Entry(r, goal) ==
            Answer(FALSE, MapInsert(NoPaths, goal, r.paths[goal]),
                   [q \in (DOMAIN r.skips) \cap {goal} |-> r.skips[q]])
        First(r) ==
            IF r.panic \/ DOMAIN r.paths = {} THEN r
            ELSE Entry(r, Head(IterPoints(env, DOMAIN r.paths)))
    IN First(find_paths_internal(env, cache, start, goals, g, TRUE))

-----------------------------------------------------------------------------
(* path_cache.rs: tiles_changed *)

\* enum Renew { No, Inner, Corner(Point), All }
RenewNo == [k |-> "No", p |-> <<0, 0>>]
RenewInner == [k |-> "Inner", p |-> <<0, 0>>]
RenewCorner(p) == [k |-> "Corner", p |-> p]
RenewAll == [k |-> "All", p |-> <<0, 0>>]

\* renew.entry(cp).or_insert([Renew::No; 4])
RenewEntry(renew, cp) ==
    IF cp \in DOMAIN renew THEN renew[cp] ELSE <<RenewNo, RenewNo, RenewNo, RenewNo>>

RenewSet(renew, cp, dir, v) ==
    [q \in (DOMAIN renew) \cup {cp} |->
       IF q = cp THEN [RenewEntry(renew, cp) EXCEPT ![dir + 1] = v] ELSE renew[q]]

\* MarkOwn that keeps the corner it saw first when another corner changes
MarkOwn_keeps_first_corner(old, corner, p) ==
    IF corner
    THEN IF old.k = "No" \/ old.k = "Inner" THEN RenewCorner(p) ELSE old
    ELSE IF old.k = "No" THEN RenewInner ELSE old

\* the new value of the own side of a changed tile p
MarkOwn(old, corner, p) ==
    IF corner
    THEN IF old.k = "No" \/ old.k = "Inner" THEN RenewCorner(p)
         ELSE IF old.k = "Corner" THEN (IF old.p # p THEN RenewAll ELSE old)
         ELSE old
    ELSE IF old.k = "No" THEN RenewInner ELSE old

\* MarkOther that leaves the side of the neighbouring chunk as it was
MarkOther_unmarked(old) == old

\* the new value of the opposite side of the neighbouring chunk
MarkOther(old) == IF old.k = "No" THEN RenewInner ELSE old

RECURSIVE MarkTile(_, _, _, _, _, _)
\* for dir in Dir::all().filter(|dir| chunk.sides[dir.num()] && chunk.at_side(p, *dir))
MarkTile(env, chunk, renew, cp, p, dirs) ==
    IF dirs = <<>> THEN renew
    ELSE LET dir == Head(dirs)
         IN IF ~(At(chunk.sides, dir) /\ at_side(chunk, p, dir))
            THEN MarkTile(env, chunk, renew, cp, p, Tail(dirs))
            ELSE LET other_pos == jump_in_dir(cp, dir, env.config.chunk_size, <<0, 0>>,
                                              <<env.width, env.height>>)[1]
                     r1 == RenewSet(renew, cp, dir,
                                    MarkOwn(At(RenewEntry(renew, cp), dir),
                                            is_corner(chunk, p), p))
                     r2 == RenewSet(r1, other_pos, DirOpposite(dir),
                                    MarkOther(At(RenewEntry(r1, other_pos), DirOpposite(dir))))
                 IN MarkTile(env, chunk, r2, cp, p, Tail(dirs))

RECURSIVE MarkTiles(_, _, _, _, _)
\* for &p in positions
MarkTiles(env, chunk, renew, cp, positions) ==
    IF positions = <<>> THEN renew
    ELSE MarkTiles(env, chunk, MarkTile(env, chunk, renew, cp, Head(positions), DirAll),
                   cp, Tail(positions))

RECURSIVE MarkChunks(_, _, _, _, _)
\* for (&cp, positions) in dirty.iter()
MarkChunks(env, cache, renew, dirty, cps) ==
    IF cps = <<>> THEN renew
    ELSE MarkChunks(env, cache,
                    MarkTiles(env, get_chunk(env, cache, Head(cps)), renew, Head(cps), dirty[Head(cps)]),
                    dirty, Tail(cps))

\* dirty.entry(chunk_pos).or_insert_with(Vec::new).push(p), for every tile
Dirty(env, tiles) ==
    [cp \in {get_chunk_pos(env, tiles[i]) : i \in 1..Len(tiles)} |->
       SelectSeq(tiles, LAMBDA p : get_chunk_pos(env, p) = cp)]

\* Removed that treats Renew::Inner as Renew::All
Removed_with_corners(chunk, nm, sides) ==
    {id \in chunk.nodes :
       \E dir \in 0..3 : At(sides, dir).k # "No" /\ at_side(chunk, NodeOf(nm, id).pos, dir)}

\* the filter that selects the nodes of a chunk to remove
Removed(chunk, nm, sides) ==
    {id \in chunk.nodes :
       LET pos == NodeOf(nm, id).pos
           corner == is_corner(chunk, pos)
       IN \E dir \in 0..3 :
            /\ CASE At(sides, dir).k = "No" -> FALSE
                 [] At(sides, dir).k = "Inner" -> ~corner
                 [] At(sides, dir).k = "Corner" -> ~corner \/ At(sides, dir).p = pos
                 [] At(sides, dir).k = "All" -> TRUE
            /\ at_side(chunk, pos, dir)}

RECURSIVE RemoveAll(_, _)
RemoveAll(nm, ids) ==
    IF ids = <<>> THEN nm ELSE RemoveAll(remove_node(nm, Head(ids)), Tail(ids))

RECURSIVE ClearAll(_, _)
ClearAll(nm, ids) ==
    IF ids = <<>> THEN nm ELSE ClearAll(ClearEdges(nm, Head(ids)), Tail(ids))

SetChunk(cache, index, c) == [cache EXCEPT !.chunks = [@ EXCEPT ![index + 1] = c]]

RECURSIVE RemoveStep(_, _, _, _)
\* remove all nodes of sides in renew
RemoveStep(env, cache, renew, cps) ==
    IF cps = <<>> THEN cache
    ELSE LET index == get_chunk_index(env, Head(cps))
             chunk == At(cache.chunks, index)
             Remove(removed) ==
                 RemoveStep(env, [SetChunk(cache, index, [chunk EXCEPT !.nodes = @ \ removed])
                                    EXCEPT !.nodes = RemoveAll(@, IterIds(env, removed))],
                            renew, Tail(cps))
         IN Remove(Removed(chunk, cache.nodes, renew[Head(cps)]))

\* ClearStep that clears the nodes of the first chunk of dirty only
ClearStep_first_chunk(env, cache, cps) ==
    IF cps = <<>> THEN cache
    ELSE [cache EXCEPT !.nodes =
            ClearAll(@, IterIds(env, get_chunk(env, cache, Head(cps)).nodes))]

RECURSIVE ClearStep(_, _, _)
\* remove all Paths in changed chunks
ClearStep(env, cache, cps) ==
    IF cps = <<>> THEN cache
    ELSE ClearStep(env, [cache EXCEPT !.nodes =
                      ClearAll(@, IterIds(env, get_chunk(env, cache, Head(cps)).nodes))],
                   Tail(cps))

RECURSIVE RecreateStep(_, _, _, _, _, _, _)
\* recreate sides in renew; changed is the set changed_nodes
RecreateStep(env, cache, changed, renew, dirty, cps, g) ==
    IF cps = <<>> THEN [cache |-> cache, changed |-> changed]
    ELSE LET cp == Head(cps)
             index == get_chunk_index(env, cp)
             chunk == At(cache.chunks, index)
             all == UNION {IF At(renew[cp], dir).k # "No"
                           THEN calculate_side_nodes(env, chunk, dir, g) ELSE {} : dir \in 0..3}
             Connect(ids, r) ==
                 RecreateStep(env, [SetChunk(cache, index, r.chunk) EXCEPT !.nodes = r.nodes],
                              changed \cup ids, renew, dirty, Tail(cps), g)
             Added(added, ids) ==
                 IF cp \notin DOMAIN dirty
                 THEN Connect(ids, add_nodes(env, chunk, added.ids, g, added.nodes))
                 ELSE RecreateStep(env, [SetChunk(cache, index, [chunk EXCEPT !.nodes = @ \cup ids])
                                      EXCEPT !.nodes = added.nodes],
                                   changed, renew, dirty, Tail(cps), g)
             NewIds(added) == Added(added, {added.ids[i] : i \in 1..Len(added.ids)})
             Candidates(candidates) ==
                 IF candidates = {}
                 THEN RecreateStep(env, cache, changed, renew, dirty, Tail(cps), g)
                 ELSE NewIds(AddNodesAt(cache.nodes, IterPoints(env, candidates), g))
         IN Candidates({pos \in all : id_at(cache.nodes, pos) = None})

RECURSIVE RepathStep(_, _, _, _, _)
\* CostFnWrapper::Sequential: recreate the paths of every dirty chunk
RepathStep(env, cache, changed, cps, g) ==
    IF cps = <<>> THEN [cache |-> cache, changed |-> changed]
    ELSE LET index == get_chunk_index(env, Head(cps))
             chunk == At(cache.chunks, index)
             ids == IterIds(env, chunk.nodes)
             Connect(r) ==
                 RepathStep(env, [SetChunk(cache, index, r.chunk) EXCEPT !.nodes = r.nodes],
                            changed \cup chunk.nodes, Tail(cps), g)
         IN Connect(add_nodes(env, [chunk EXCEPT !.nodes = {}], ids, g, cache.nodes))

\* tiles_changed_internal that leaves the cache as it was before the change
tiles_changed_internal_stale(env, cache, tiles, g) == cache

\* PathCache::tiles_changed_internal: the cache after the call; g is the
\* grid that get_cost reads, tiles the sequence of changed tiles
tiles_changed_internal(env, cache, tiles, g) ==
    LET dirty == Dirty(env, tiles)
        dirty_keys == IterPoints(env, DOMAIN dirty)
        Connect(c4) == [c4.cache EXCEPT !.nodes = connect_nodes(env, @, Some(c4.changed))]
        Repath(c3) == Connect(RepathStep(env, c3.cache, c3.changed, dirty_keys, g))
        Recreate(renew, renew_keys, c2) ==
            Repath(RecreateStep(env, c2, {}, renew, dirty, renew_keys, g))
        Clear(renew, renew_keys, c1) ==
            Recreate(renew, renew_keys, ClearStep(env, c1, dirty_keys))
        Remove(renew, renew_keys) ==
            Clear(renew, renew_keys, RemoveStep(env, cache, renew, renew_keys))
        Mark(renew) == Remove(renew, IterPoints(env, DOMAIN renew))
    IN Mark(MarkChunks(env, cache, [q \in {} |-> <<>>], dirty, dirty_keys))

\* PathCache::tiles_changed
tiles_changed(env, cache, tiles, g) == tiles_changed_internal(env, cache, tiles, g)

-----------------------------------------------------------------------------
(* Iterating a returned path *)

RECURSIVE CollectNext(_, _)
\* path.collect(): the cells that repeated calls of next() yield
CollectNext(ap, acc) ==
    LET Push(r) ==
            IF r.panic THEN [panic |-> TRUE, cells |-> acc]
            ELSE IF r.item = None THEN [panic |-> FALSE, cells |-> acc]
            ELSE CollectNext(r.ap, Append(acc, r.item[1]))
    IN Push(APNext(ap))

RECURSIVE CollectSafeNext(_, _, _, _)
\* while let Some(p) = path.safe_next(get_cost)
CollectSafeNext(env, ap, g, acc) ==
    LET Push(r) ==
            IF r.panic THEN [panic |-> TRUE, cells |-> acc]
            ELSE IF r.item = None THEN [panic |-> FALSE, cells |-> acc]
            ELSE CollectSafeNext(env, r.ap, g, Append(acc, r.item[1]))
    IN Push(APSafeNext(env, ap, g))

-----------------------------------------------------------------------------
(* The state machine: a cache is built over one of the grids below, then   *)
(* queried and updated.                                                     *)

\* the cost function of the repository's examples: [1, 10, -1][grid[y][x]]
CostOfTile(t) == IF t = 0 THEN 1 ELSE IF t = 1 THEN 10 ELSE -1

\* the cost function as a grid: move |(x, y)| [1, 10, -1][grid[y][x]]
GridOf(env, rows) == [p \in Points(env) |-> CostOfTile(rows[p[2] + 1][p[1] + 1])]

TheCache == [nodes |-> nodes, chunks |-> chunks]

\* the immutable fields of the cache
Self ==
    [width |-> width, height |-> height, neighborhood |-> neighborhood,
     config |-> config, iter_order |-> iter_order]

\* PathCacheConfig { chunk_size, cache_paths, a_star_fallback, perfect_paths }
Config(chunk_size, cache_paths, a_star_fallback, perfect_paths) ==
    [chunk_size |-> chunk_size, cache_paths |-> cache_paths,
     a_star_fallback |-> a_star_fallback, perfect_paths |-> perfect_paths]

\* PathCacheConfig::with_chunk_size: the defaults of the other fields
with_chunk_size(chunk_size) == Config(chunk_size, TRUE, TRUE, FALSE)

Setup(w, h, nb, order, cfg, rows) ==
    [env |-> [width |-> w, height |-> h, neighborhood |-> nb, config |-> cfg,
              iter_order |-> order],
     rows |-> rows]

\* the 5x5 grid of the examples of find_path, find_paths and tiles_changed
GridA ==
    << <<0, 2, 0, 0, 0>>,
       <<0, 2, 2, 2, 2>>,
       <<0, 1, 0, 0, 0>>,
       <<0, 1, 0, 2, 0>>,
       <<0, 0, 0, 2, 0>> >>

\* the 4x4 grid of the test skip_first_and_last (its wall tile written as 2)
GridSkip ==
    << <<0, 0, 0, 0>>,
       <<0, 0, 0, 0>>,
       <<0, 0, 0, 2>>,
       <<2, 2, 0, 0>> >>

\* a 4x4 grid with swamp tiles, as random_test draws its costs per tile
GridSwamp ==
    << <<0, 1, 1, 2>>,
       <<0, 0, 0, 0>>,
       <<1, 0, 0, 0>>,
       <<0, 0, 2, 1>> >>

\* a 4x4 grid of two rooms that touch only diagonally
GridDiag ==
    << <<0, 0, 2, 2>>,
       <<0, 0, 2, 2>>,
       <<2, 2, 0, 0>>,
       <<2, 2, 0, 0>> >>

\* the caches that are built: grid, neighborhood and config of each
Setups ==
    << Setup(5, 5, "Manhattan", "asc", with_chunk_size(3), GridA),
       Setup(5, 5, "Moore", "asc", with_chunk_size(3), GridA),
       Setup(5, 5, "Manhattan", "desc", with_chunk_size(3), GridA),
       Setup(4, 4, "Manhattan", "asc", Config(3, TRUE, FALSE, FALSE), GridSkip),
       Setup(4, 4, "Manhattan", "asc", Config(3, FALSE, FALSE, FALSE), GridSkip),
       Setup(4, 4, "Manhattan", "asc", Config(2, TRUE, FALSE, TRUE), GridSwamp),
       Setup(4, 4, "Moore", "desc", Config(2, TRUE, TRUE, TRUE), GridSwamp),
       Setup(4, 4, "Moore", "asc", with_chunk_size(2), GridDiag),
       Setup(4, 4, "Manhattan", "asc", Config(2, TRUE, FALSE, FALSE), GridDiag) >>

\* PathCache::new on every setup
Built ==
    [i \in 1..Len(Setups) |->
       LET New(g) == [grid |-> g, cache |-> new_internal(Setups[i].env, g)]
       IN New(GridOf(Setups[i].env, Setups[i].rows))]

\* the outcome of the last operation: the operation, its arguments and its Answer
Outcome(op, start, goals, answer) ==
    [op |-> op, start |-> start, goals |-> goals, panic |-> answer.panic,
     paths |-> answer.paths, skips |-> answer.skips]

Idle == Outcome("idle", <<0, 0>>, <<>>, AnswerNone)

\* no call of tiles_changed is under way
NoUpdate == [pc |-> "none"]

\* no search is under way
NoSearch == [kind |-> "none"]

\* no AbstractPath is held
NoAbstractPath == [op |-> "none"]

\* the goal lists handed to find_paths and find_closest_goal
GoalLists ==
    { << <<4, 4>>, <<2, 0>> >>,
      << <<4, 4>>, <<2, 0>>, <<2, 2>> >>,
      << <<1, 2>>, <<2, 3>> >>,
      << <<2, 2>> >>,
      << <<2, 0>> >> }

\* the tile lists handed to tiles_changed
TileLists ==
    { << <<1, 2>> >>,
      << <<2, 1>>, <<2, 3>> >> }

\* the costs a changed tile can take
NewCosts == {-1, 1}

\* the number of tiles_changed calls in a run
MaxChanges == 1

InGrid(env, ps) == \A i \in 1..Len(ps) : ps[i] \in Points(env)

Init ==
    \E i \in 1..Len(Setups) :
        /\ width = Setups[i].env.width
        /\ height = Setups[i].env.height
        /\ neighborhood = Setups[i].env.neighborhood
        /\ config = Setups[i].env.config
        /\ iter_order = Setups[i].env.iter_order
        /\ LET New(built) == /\ grid = built.grid
                              /\ nodes = built.cache.nodes
                              /\ chunks = built.cache.chunks
           IN New(Built[i])
        /\ changes = 0
        /\ result = Idle
        /\ raw_chunks = <<>>
        /\ update = NoUpdate
        /\ search = NoSearch
        /\ abstract_path = NoAbstractPath

\* let path = cache.find_path(start, goal, cost_fn)
FindPath ==
    /\ result = Idle
    /\ \E start \in Points(Self), goal \in Points(Self) :
         result' = Outcome("find_path", start, <<goal>>,
                           find_path(Self, TheCache, start, goal, grid))
    /\ UNCHANGED <<abstract_path, search, update, raw_chunks, width, height, neighborhood, config, iter_order, grid, nodes,
                   chunks, changes>>

\* let paths = cache.find_paths(start, goals, cost_fn)
FindPaths ==
    /\ result = Idle
    /\ \E start \in Points(Self), goals \in GoalLists :
         /\ InGrid(Self, goals)
         /\ result' = Outcome("find_paths", start, goals,
                              find_paths(Self, TheCache, start, goals, grid))
    /\ UNCHANGED <<abstract_path, search, update, raw_chunks, width, height, neighborhood, config, iter_order, grid, nodes,
                   chunks, changes>>

\* let closest = cache.find_closest_goal(start, goals, cost_fn)
FindClosestGoal ==
    /\ result = Idle
    /\ \E start \in Points(Self), goals \in GoalLists :
         /\ InGrid(Self, goals)
         /\ result' = Outcome("find_closest_goal", start, goals,
                              find_closest_goal(Self, TheCache, start, goals, grid))
    /\ UNCHANGED <<abstract_path, search, update, raw_chunks, width, height, neighborhood, config, iter_order, grid, nodes,
                   chunks, changes>>

\* the caller writes new costs into its grid, then cache.tiles_changed(tiles, cost_fn)
TilesChanged ==
    /\ result = Idle
    /\ changes < MaxChanges
    /\ \E tiles \in TileLists, c \in NewCosts :
         /\ InGrid(Self, tiles)
         /\ \A i \in 1..Len(tiles) : grid[tiles[i]] # c
         /\ LET Update(g, cache) == /\ grid' = g
                                    /\ nodes' = cache.nodes
                                    /\ chunks' = cache.chunks
                Changed(g) == Update(g, tiles_changed(Self, TheCache, tiles, g))
            IN Changed([p \in Points(Self) |->
                          IF \E i \in 1..Len(tiles) : tiles[i] = p THEN c ELSE grid[p]])
    /\ changes' = changes + 1
    /\ UNCHANGED <<abstract_path, search, update, raw_chunks, width, height, neighborhood, config, iter_order, result>>

\* the caller drops the value the last query returned
Drop ==
    /\ result # Idle
    /\ result' = Idle
    /\ UNCHANGED <<abstract_path, search, update, raw_chunks, width, height, neighborhood, config, iter_order, grid, nodes,
                   chunks, changes>>

\* PathCache::new_parallel is called: the workers of the parallel arm start
InitParallel ==
    \E i \in 1..Len(Setups) :
        /\ width = Setups[i].env.width
        /\ height = Setups[i].env.height
        /\ neighborhood = Setups[i].env.neighborhood
        /\ config = Setups[i].env.config
        /\ iter_order = Setups[i].env.iter_order
        /\ grid = GridOf(Setups[i].env, Setups[i].rows)
        /\ nodes = NodeMapNew(Setups[i].env)
        /\ chunks = <<>>
        /\ changes = 0
        /\ result = Idle
        /\ update = NoUpdate
        /\ search = NoSearch
        /\ abstract_path = NoAbstractPath
        /\ raw_chunks = [index \in 1..(NumChunks(Setups[i].env, Setups[i].env.width)
                                       * NumChunks(Setups[i].env, Setups[i].env.height)) |-> None]

\* the worker of one index finishes, in whatever order the pool runs them
WorkerFinish ==
    /\ \E index \in 0..(Len(raw_chunks) - 1) :
         /\ At(raw_chunks, index) = None
         /\ raw_chunks' = [raw_chunks EXCEPT ![index + 1] = Some(RawChunk(Self, index, grid))]
    /\ UNCHANGED <<abstract_path, search, update, width, height, neighborhood, config, iter_order, grid, nodes,
                   chunks, changes, result>>

\* collect() has every result: the main thread absorbs the node maps in index
\* order and connects the nodes across the chunk borders
Merge ==
    /\ raw_chunks # <<>>
    /\ \A index \in 0..(Len(raw_chunks) - 1) : At(raw_chunks, index) # None
    /\ LET New(built) == /\ nodes' = built.nodes
                          /\ chunks' = built.chunks
       IN New(new_internal_parallel(Self, [i \in 1..Len(raw_chunks) |-> raw_chunks[i][1]]))
    /\ raw_chunks' = <<>>
    /\ UNCHANGED <<abstract_path, search, update, width, height, neighborhood, config, iter_order, grid, changes,
                   result>>

Next == FindPath \/ FindPaths \/ FindClosestGoal \/ TilesChanged \/ Drop

Spec == Init /\ [][Next]_vars

-----------------------------------------------------------------------------
(* The node map on its own: any sequence of its operations on a 2x2 grid *)

\* the number of node map operations in a run
MaxNodeOps == 4

\* the maps handed to absorb: the one of the test absorb, and one with a
\* removed node
OtherMaps(env) ==
    LET two == add_node(add_node(NodeMapNew(env), <<0, 0>>, 10), <<1, 1>>, 1)
        three == add_node(two, <<1, 0>>, 1)
        seg(a, b, cost) == SegNew(PathNew(<<a, b>>, cost), TRUE)
    IN {add_edge(two, 0, 1, seg(<<0, 0>>, <<1, 1>>, 10)),
        remove_node(add_edge(three, 1, 2, seg(<<1, 1>>, <<1, 0>>, 1)), 0)}

InitNodes ==
    /\ width = 2
    /\ height = 2
    /\ neighborhood = "Manhattan"
    /\ config = with_chunk_size(2)
    /\ iter_order = "asc"
    /\ grid = [p \in (0..1) \X (0..1) |-> 1]
    /\ nodes = [nodes |-> <<>>, pos_map |-> [p \in (0..1) \X (0..1) |-> None], next_id |-> 0]
    /\ chunks = <<>>
    /\ changes = 0
    /\ result = Idle
    /\ raw_chunks = <<>>
    /\ update = NoUpdate
    /\ search = NoSearch
    /\ abstract_path = NoAbstractPath

\* nodes.add_node(pos, walk_cost)
AddNode ==
    /\ changes < MaxNodeOps
    /\ \E pos \in Points(Self) :
         /\ nodes' = add_node(nodes, pos, grid[pos])
         /\ result' = Outcome("add_node", pos, <<>>, AnswerNone)
    /\ changes' = changes + 1
    /\ UNCHANGED <<abstract_path, search, update, width, height, neighborhood, config, iter_order, grid, chunks,
                   raw_chunks>>

\* nodes.add_edge(src, target, path)
AddEdge ==
    /\ changes < MaxNodeOps
    /\ \E src \in Keys(nodes), target \in Keys(nodes) :
         /\ src < target
         /\ nodes' = add_edge(nodes, src, target,
                              SegNew(PathNew(<<NodeOf(nodes, src).pos, NodeOf(nodes, target).pos>>,
                                             NodeOf(nodes, src).walk_cost), TRUE))
         /\ result' = Outcome("add_edge", NodeOf(nodes, src).pos, <<>>, AnswerNone)
    /\ changes' = changes + 1
    /\ UNCHANGED <<abstract_path, search, update, width, height, neighborhood, config, iter_order, grid, chunks,
                   raw_chunks>>

\* nodes.remove_node(id)
RemoveNode ==
    /\ changes < MaxNodeOps
    /\ \E id \in Keys(nodes) :
         /\ nodes' = remove_node(nodes, id)
         /\ result' = Outcome("remove_node", NodeOf(nodes, id).pos, <<>>, AnswerNone)
    /\ changes' = changes + 1
    /\ UNCHANGED <<abstract_path, search, update, width, height, neighborhood, config, iter_order, grid, chunks,
                   raw_chunks>>

\* nodes.absorb(other)
Absorb ==
    /\ changes < MaxNodeOps
    /\ \E other \in OtherMaps(Self) :
         /\ nodes' = absorb(Self, nodes, other).nm
         /\ result' = Outcome("absorb", <<0, 0>>, <<>>, AnswerNone)
    /\ changes' = changes + 1
    /\ UNCHANGED <<abstract_path, search, update, width, height, neighborhood, config, iter_order, grid, chunks,
                   raw_chunks>>

NextNodes == AddNode \/ AddEdge \/ RemoveNode \/ Absorb

SpecNodes == InitNodes /\ [][NextNodes]_vars

-----------------------------------------------------------------------------
(* The node list on its own: add_edge and remove_node on the four nodes of a
   2x2 grid *)

MaxListOps == 2

RECURSIVE WalkCost(_, _)
\* the cost of a walk: the cost of every point but the last
WalkCost(g, w) == IF Len(w) < 2 THEN 0 ELSE g[Head(w)] + WalkCost(g, Tail(w))

\* the walks from a to b over distinct points of the grid, as paths whose cost
\* is the cost of every point but the last
Walks(env, g, a, b) ==
    {PathNew(w, WalkCost(g, w)) :
       w \in {w \in UNION {[1..n -> Points(env)] : n \in 2..Cardinality(Points(env))} :
                /\ w[1] = a
                /\ w[Len(w)] = b
                /\ \A i, j \in 1..Len(w) : w[i] = w[j] => i = j
                /\ \A i \in 1..(Len(w) - 1) :
                     \E k \in 1..Len(get_all_neighbors(env, w[i])) :
                        get_all_neighbors(env, w[i])[k] = w[i + 1]}}

\* NodeList::new, then add_node for every point of a 2x2 grid
InitList ==
    /\ width = 2
    /\ height = 2
    /\ neighborhood = "Manhattan"
    /\ config = with_chunk_size(2)
    /\ iter_order = "asc"
    /\ grid = [p \in (0..1) \X (0..1) |-> p[1] + p[2] + 1]
    /\ nodes = add_node(add_node(add_node(add_node(
                  [nodes |-> <<>>, pos_map |-> [p \in (0..1) \X (0..1) |-> None], next_id |-> 0],
                  <<0, 0>>, 1), <<1, 0>>, 2), <<0, 1>>, 2), <<1, 1>>, 3)
    /\ chunks = <<>>
    /\ changes = 0
    /\ result = Idle
    /\ raw_chunks = <<>>
    /\ update = NoUpdate
    /\ search = NoSearch
    /\ abstract_path = NoAbstractPath

\* nodes.add_edge(src, target, path) with a walk from src to target, as a
\* Known or as an Unknown segment
ListAddEdge ==
    /\ changes < MaxListOps
    /\ \E src \in Keys(nodes), target \in Keys(nodes), known \in BOOLEAN :
         /\ src # target
         /\ \E path \in Walks(Self, grid, NodeOf(nodes, src).pos, NodeOf(nodes, target).pos) :
              /\ nodes' = NodeListAddEdge(nodes, src, target, SegNew(path, known))
              /\ result' = Outcome("add_edge", NodeOf(nodes, src).pos,
                                   << NodeOf(nodes, target).pos >>,
                                   Answer(FALSE, MapInsert(NoPaths, NodeOf(nodes, target).pos,
                                                           SegNew(path, known)), NoSkips))
    /\ changes' = changes + 1
    /\ UNCHANGED <<abstract_path, search, update, width, height, neighborhood, config, iter_order, grid, chunks,
                   raw_chunks>>

\* nodes.remove_node(id)
ListRemoveNode ==
    /\ changes < MaxListOps
    /\ \E id \in Keys(nodes) :
         /\ nodes' = remove_node(nodes, id)
         /\ result' = Outcome("remove_node", NodeOf(nodes, id).pos, <<>>, AnswerNone)
    /\ changes' = changes + 1
    /\ UNCHANGED <<abstract_path, search, update, width, height, neighborhood, config, iter_order, grid, chunks,
                   raw_chunks>>

NextList == ListAddEdge \/ ListRemoveNode

SpecList == InitList /\ [][NextList]_vars

-----------------------------------------------------------------------------
(* The node map of path_cache/node_map.rs on its own: nodes may lie on walls *)

MaxSolidOps == 4

\* NodeMap::new, on a 2x2 grid with walls at (1, 0) and (1, 1)
InitSolid ==
    /\ width = 2
    /\ height = 2
    /\ neighborhood = "Manhattan"
    /\ config = with_chunk_size(2)
    /\ iter_order = "asc"
    /\ grid = [p \in (0..1) \X (0..1) |-> IF p[1] = 1 THEN -1 ELSE p[2] + 1]
    /\ nodes = [nodes |-> <<>>, pos_map |-> [p \in (0..1) \X (0..1) |-> None], next_id |-> 0]
    /\ chunks = <<>>
    /\ changes = 0
    /\ result = Idle
    /\ raw_chunks = <<>>
    /\ update = NoUpdate
    /\ search = NoSearch
    /\ abstract_path = NoAbstractPath

\* nodes.add_node(pos, get_cost(pos)) at a point that holds no node
SolidAddNode ==
    /\ changes < MaxSolidOps
    /\ \E pos \in Points(Self) :
         /\ id_at(nodes, pos) = None
         /\ nodes' = add_node(nodes, pos, grid[pos])
         /\ result' = Outcome("add_node", pos, <<>>, AnswerNone)
    /\ changes' = changes + 1
    /\ UNCHANGED <<abstract_path, search, update, width, height, neighborhood, config, iter_order, grid, chunks,
                   raw_chunks>>

\* nodes.add_edge(src, target, path) with the path of the two positions
SolidAddEdge ==
    /\ changes < MaxSolidOps
    /\ \E src \in Keys(nodes), target \in Keys(nodes), known \in BOOLEAN :
         /\ src # target
         /\ LET Call(r) ==
                  /\ nodes' = r.nm
                  /\ result' = Outcome("add_edge", NodeOf(nodes, src).pos,
                                       << NodeOf(nodes, target).pos >>,
                                       IF r.panic THEN AnswerPanic ELSE AnswerNone)
            IN Call(CacheNodeMapAddEdge(nodes, src, target,
                      SegNew(PathNew(<<NodeOf(nodes, src).pos, NodeOf(nodes, target).pos>>,
                                     Max(0, NodeOf(nodes, src).walk_cost)), known)))
    /\ changes' = changes + 1
    /\ UNCHANGED <<abstract_path, search, update, width, height, neighborhood, config, iter_order, grid, chunks,
                   raw_chunks>>

\* nodes.remove_node(id)
SolidRemoveNode ==
    /\ changes < MaxSolidOps
    /\ \E id \in Keys(nodes) :
         /\ nodes' = remove_node(nodes, id)
         /\ result' = Outcome("remove_node", NodeOf(nodes, id).pos, <<>>, AnswerNone)
    /\ changes' = changes + 1
    /\ UNCHANGED <<abstract_path, search, update, width, height, neighborhood, config, iter_order, grid, chunks,
                   raw_chunks>>

NextSolid == SolidAddNode \/ SolidAddEdge \/ SolidRemoveNode

SpecSolid == InitSolid /\ [][NextSolid]_vars

-----------------------------------------------------------------------------
(* The sequential build, chunk by chunk, on open grids of every size *)

MaxSide == 5
MaxChunkSize == 4

\* PathCache::new_with_fn_mut is called on a grid where every tile costs 1
InitSequential ==
    \E w \in 1..MaxSide, h \in 1..MaxSide, s \in 1..MaxChunkSize :
        /\ width = w
        /\ height = h
        /\ neighborhood = "Manhattan"
        /\ config = with_chunk_size(s)
        /\ iter_order = "asc"
        /\ grid = [p \in (0..(w - 1)) \X (0..(h - 1)) |-> 1]
        /\ nodes = [nodes |-> <<>>, pos_map |-> [p \in (0..(w - 1)) \X (0..(h - 1)) |-> None],
                    next_id |-> 0]
        /\ chunks = <<>>
        /\ changes = 0
        /\ result = Idle
        /\ raw_chunks = <<>>
        /\ update = NoUpdate
        /\ search = NoSearch
        /\ abstract_path = NoAbstractPath

\* one round of the loops over y and x: chunks.push(Chunk::new(..))
PushChunk ==
    /\ result = Idle
    /\ Len(chunks) < NumChunks(Self, width) * NumChunks(Self, height)
    /\ LET Push(r) == /\ chunks' = Append(chunks, r.chunk)
                       /\ nodes' = r.nodes
       IN Push(SequentialChunk(Self, Len(chunks), grid, nodes))
    /\ UNCHANGED <<abstract_path, search, update, width, height, neighborhood, config, iter_order, grid, changes,
                   result, raw_chunks>>

\* the loops are over: connect_nodes(None), and the cache is returned
ConnectChunks ==
    /\ result = Idle
    /\ Len(chunks) = NumChunks(Self, width) * NumChunks(Self, height)
    /\ nodes' = connect_nodes(Self, nodes, None)
    /\ result' = Outcome("new", <<0, 0>>, <<>>, AnswerNone)
    /\ UNCHANGED <<abstract_path, search, update, width, height, neighborhood, config, iter_order, grid, chunks,
                   changes, raw_chunks>>

\* get_chunk(point) on the cache
GetChunk ==
    /\ result.op # "idle"
    /\ \E point \in Points(Self) :
         result' = Outcome("get_chunk", point, <<>>, AnswerNone)
    /\ UNCHANGED <<abstract_path, search, update, width, height, neighborhood, config, iter_order, grid, nodes,
                   chunks, changes, raw_chunks>>

NextSequential == PushChunk \/ ConnectChunks \/ GetChunk

SpecSequential == InitSequential /\ [][NextSequential]_vars

NextParallel == WorkerFinish \/ Merge

\* the build of PathCache::new_parallel
SpecParallel == InitParallel /\ [][NextParallel]_vars

-----------------------------------------------------------------------------
(* tiles_changed_internal, one phase at a time *)

\* the length of the slice handed to tiles_changed
MaxTiles == 3

\* a 7x4 grid: with chunk_size 3 the chunk at (3, 0) has a peer on three sides
GridWide ==
    << <<0, 0, 0, 0, 0, 0, 0>>,
       <<0, 2, 0, 0, 2, 0, 0>>,
       <<0, 0, 0, 0, 0, 0, 0>>,
       <<0, 0, 2, 0, 0, 0, 0>> >>

SetupWide == Setup(7, 4, "Manhattan", "asc", with_chunk_size(3), GridWide)

\* PathCache::new on SetupWide
BuiltWide ==
    LET New(g) == [grid |-> g, cache |-> new_internal(SetupWide.env, g)]
    IN New(GridOf(SetupWide.env, SetupWide.rows))

\* the tiles the caller changes: three on the lower side of the chunk at
\* (3, 0), one in the chunk below it and one in the chunk to its left
ChangedTiles == {<<3, 2>>, <<4, 2>>, <<5, 2>>, <<4, 3>>, <<2, 2>>}

\* the slices handed to tiles_changed
TileSlices == UNION {[1..n -> ChangedTiles] : n \in 1..MaxTiles}

\* the locals of tiles_changed_internal at the start of a phase
UpdateAt(pc, tiles, dirty, renew, changed_nodes) ==
    [pc |-> pc, tiles |-> tiles, dirty |-> dirty, renew |-> renew,
     changed_nodes |-> changed_nodes]

\* let mut renew = PointMap::default()
NoRenew == [q \in {} |-> <<>>]

InitUpdate ==
    /\ width = SetupWide.env.width
    /\ height = SetupWide.env.height
    /\ neighborhood = SetupWide.env.neighborhood
    /\ config = SetupWide.env.config
    /\ iter_order = SetupWide.env.iter_order
    /\ LET New(built) == /\ grid = built.grid
                          /\ nodes = built.cache.nodes
                          /\ chunks = built.cache.chunks
       IN New(BuiltWide)
    /\ changes = 0
    /\ result = Idle
    /\ raw_chunks = <<>>
    /\ update = NoUpdate
    /\ search = NoSearch
    /\ abstract_path = NoAbstractPath

\* the caller turns every tile of the slice from floor to wall or from wall to
\* floor and calls tiles_changed: dirty is filled
EnterTilesChanged ==
    /\ update = NoUpdate
    /\ changes = 0
    /\ \E tiles \in TileSlices :
         /\ grid' = [p \in Points(Self) |->
                       IF \E i \in 1..Len(tiles) : tiles[i] = p
                       THEN (IF grid[p] < 0 THEN 1 ELSE -1) ELSE grid[p]]
         /\ update' = UpdateAt("establish renew", tiles, Dirty(Self, tiles), NoRenew, {})
    /\ UNCHANGED <<abstract_path, search, raw_chunks, width, height, neighborhood, config, iter_order, nodes,
                   chunks, changes, result>>

\* the loop over dirty that fills renew
EstablishRenew ==
    /\ update.pc = "establish renew"
    /\ update' = [update EXCEPT
                    !.pc = "remove nodes",
                    !.renew = MarkChunks(Self, TheCache, NoRenew, update.dirty,
                                         IterPoints(Self, DOMAIN update.dirty))]
    /\ UNCHANGED <<abstract_path, search, raw_chunks, width, height, neighborhood, config, iter_order, grid, nodes,
                   chunks, changes, result>>

\* remove all nodes of sides in renew
RemoveNodes ==
    /\ update.pc = "remove nodes"
    /\ LET Removal(cache) == /\ nodes' = cache.nodes
                             /\ chunks' = cache.chunks
       IN Removal(RemoveStep(Self, TheCache, update.renew,
                             IterPoints(Self, DOMAIN update.renew)))
    /\ update' = [update EXCEPT !.pc = "clear paths"]
    /\ UNCHANGED <<abstract_path, search, raw_chunks, width, height, neighborhood, config, iter_order, grid,
                   changes, result>>

\* remove all Paths in changed chunks
ClearPaths ==
    /\ update.pc = "clear paths"
    /\ nodes' = ClearStep(Self, TheCache, IterPoints(Self, DOMAIN update.dirty)).nodes
    /\ update' = [update EXCEPT !.pc = "recreate sides"]
    /\ UNCHANGED <<abstract_path, search, raw_chunks, width, height, neighborhood, config, iter_order, grid,
                   chunks, changes, result>>

\* recreate sides in renew
RecreateSides ==
    /\ update.pc = "recreate sides"
    /\ LET Recreated(r) == /\ nodes' = r.cache.nodes
                           /\ chunks' = r.cache.chunks
                           /\ update' = [update EXCEPT !.pc = "recreate paths",
                                                       !.changed_nodes = r.changed]
       IN Recreated(RecreateStep(Self, TheCache, update.changed_nodes, update.renew,
                                 update.dirty, IterPoints(Self, DOMAIN update.renew), grid))
    /\ UNCHANGED <<abstract_path, search, raw_chunks, width, height, neighborhood, config, iter_order, grid,
                   changes, result>>

\* recreate Paths: the loop over dirty.keys()
RecreatePaths ==
    /\ update.pc = "recreate paths"
    /\ LET Recreated(r) == /\ nodes' = r.cache.nodes
                           /\ chunks' = r.cache.chunks
                           /\ update' = [update EXCEPT !.pc = "connect nodes",
                                                       !.changed_nodes = r.changed]
       IN Recreated(RepathStep(Self, TheCache, update.changed_nodes,
                               IterPoints(Self, DOMAIN update.dirty), grid))
    /\ UNCHANGED <<abstract_path, search, raw_chunks, width, height, neighborhood, config, iter_order, grid,
                   changes, result>>

\* self.connect_nodes(Some(changed_nodes)), and tiles_changed returns
ConnectNodes ==
    /\ update.pc = "connect nodes"
    /\ nodes' = connect_nodes(Self, nodes, Some(update.changed_nodes))
    /\ update' = [update EXCEPT !.pc = "done"]
    /\ changes' = changes + 1
    /\ UNCHANGED <<abstract_path, search, raw_chunks, width, height, neighborhood, config, iter_order, grid,
                   chunks, result>>

NextUpdate ==
    \/ EnterTilesChanged \/ EstablishRenew \/ RemoveNodes \/ ClearPaths
    \/ RecreateSides \/ RecreatePaths \/ ConnectNodes

\* one call of tiles_changed on a built cache
SpecUpdate == InitUpdate /\ [][NextUpdate]_vars

-----------------------------------------------------------------------------
(* The searches, one pop of the heap at a time *)

\* the built caches whose grids and graphs are searched
SearchSetups == {1, 2, 6, 7}

\* the goal lists handed to the searches over the abstract graph
GoalIdLists == {goals \in Keys(nodes) \X Keys(nodes) : goals[1] < goals[2]}

\* a search in its loop or returned: kind of search, the closure valid, the
\* arguments, the locals st, the entry that next.pop() handed out last
\* (current_id, current_cost) and the returned value out
SearchAt(kind, pc, valid, start, goals, only_closest_goal, st, out) ==
    [kind |-> kind, pc |-> pc, valid |-> valid, start |-> start, goals |-> goals,
     only_closest_goal |-> only_closest_goal, st |-> st, current |-> None, out |-> out]

\* the loop of a search is over after the pop that led from st to st1
LoopEnds(breaks, st1) == breaks \/ st1.panic \/ st1.next = <<>>

\* a 7x3 grid of costs, -1 a wall: from (2, 2) the way to (6, 0) over
\* (5, 0) costs 6 and the way over (5, 1), whose cell costs 2, costs 7
GridDetour ==
    << <<-1, -1, -1, 1, 1,  1, 1>>,
       <<-1, -1, -1, 1, 1,  2, 1>>,
       <<-1, -1,  1, 1, 1, -1, -1>> >>

SetupDetour == Setup(7, 3, "Manhattan", "asc", with_chunk_size(3), GridDetour)

\* the cost function move |(x, y)| grid[y][x] and the cache built over it
BuiltDetour ==
    LET New(g) == [grid |-> g, cache |-> new_internal(SetupDetour.env, g)]
    IN New([p \in Points(SetupDetour.env) |-> GridDetour[p[2] + 1][p[1] + 1]])

InitSearch ==
    \/ /\ Init
       /\ \E i \in SearchSetups : grid = Built[i].grid /\ config = Setups[i].env.config
                                  /\ neighborhood = Setups[i].env.neighborhood
                                  /\ iter_order = Setups[i].env.iter_order
    \/ /\ width = SetupDetour.env.width
       /\ height = SetupDetour.env.height
       /\ neighborhood = SetupDetour.env.neighborhood
       /\ config = SetupDetour.env.config
       /\ iter_order = SetupDetour.env.iter_order
       /\ LET New(built) == /\ grid = built.grid
                             /\ nodes = built.cache.nodes
                             /\ chunks = built.cache.chunks
          IN New(BuiltDetour)
       /\ changes = 0
       /\ result = Idle
       /\ raw_chunks = <<>>
       /\ update = NoUpdate
       /\ search = NoSearch
       /\ abstract_path = NoAbstractPath

\* grid::a_star_search is called, by grid_a_star (|_| true) or by
\* Chunk::find_path (in_chunk), and reaches its loop or returns at once
StartAStar ==
    /\ search = NoSearch
    /\ \E start \in Points(Self), goal \in Points(Self) :
       \E valid \in {AllValid(Self), ChunkValid(Self, get_chunk(Self, TheCache, start))} :
         search' = IF grid[start] < 0 \/ start = goal
                   THEN SearchAt("a_star", "returned", valid, start, <<goal>>, FALSE,
                                 AStarStart(Points(Self), start),
                                 a_star_search(Self, valid, grid, start, goal))
                   ELSE SearchAt("a_star", "loop", valid, start, <<goal>>, FALSE,
                                 AStarStart(Points(Self), start), NoPath)
    /\ UNCHANGED <<abstract_path, update, raw_chunks, width, height, neighborhood, config, iter_order, grid,
                   nodes, chunks, changes, result>>

\* one round of the loop of grid::a_star_search
PopAStar ==
    /\ search.kind = "a_star"
    /\ search.pc = "loop"
    /\ LET Popped(st1) ==
               search' = IF LoopEnds(AStarBreaks(search.goals[1], search.st), st1)
                         THEN [search EXCEPT !.st = st1, !.current = Some(HeapTop(search.st.next)),
                                 !.pc = "returned",
                                 !.out = AStarResult(search.start, search.goals[1], st1)]
                         ELSE [search EXCEPT !.st = st1, !.current = Some(HeapTop(search.st.next))]
       IN Popped(AStarBody(Self, search.valid, grid, search.goals[1], search.st))
    /\ UNCHANGED <<abstract_path, update, raw_chunks, width, height, neighborhood, config, iter_order, grid,
                   nodes, chunks, changes, result>>

\* grid::dijkstra_search is called, by Chunk::find_paths (in_chunk) or with
\* |_| true as in its test
StartDijkstra ==
    /\ search = NoSearch
    /\ \E start \in Points(Self), goals \in GoalLists, only_closest_goal \in BOOLEAN :
       \E valid \in {AllValid(Self), ChunkValid(Self, get_chunk(Self, TheCache, start))} :
         /\ InGrid(Self, goals)
         /\ search' = SearchAt("dijkstra", "loop", valid, start, goals, only_closest_goal,
                               DijkstraStart(Points(Self), start, goals),
                               [panic |-> FALSE, paths |-> <<>>])
    /\ UNCHANGED <<abstract_path, update, raw_chunks, width, height, neighborhood, config, iter_order, grid,
                   nodes, chunks, changes, result>>

\* one round of the loop of grid::dijkstra_search
PopDijkstra ==
    /\ search.kind = "dijkstra"
    /\ search.pc = "loop"
    /\ LET Popped(st1) ==
               search' = IF LoopEnds(DijkstraBreaks(search.only_closest_goal, search.st), st1)
                         THEN [search EXCEPT !.st = st1, !.current = Some(HeapTop(search.st.next)),
                                 !.pc = "returned",
                                 !.out = DijkstraResult(search.start, st1)]
                         ELSE [search EXCEPT !.st = st1, !.current = Some(HeapTop(search.st.next))]
       IN Popped(DijkstraBody(Self, search.valid, grid, search.only_closest_goal, search.st))
    /\ UNCHANGED <<abstract_path, update, raw_chunks, width, height, neighborhood, config, iter_order, grid,
                   nodes, chunks, changes, result>>

\* graph::a_star_search is called and reaches its loop or returns at once
StartGraphAStar ==
    /\ search = NoSearch
    /\ \E start \in Keys(nodes), goal \in Keys(nodes) :
         search' = IF start = goal
                   THEN SearchAt("graph_a_star", "returned", {}, start, <<goal>>, FALSE,
                                 AStarStart(Ids(nodes), start),
                                 graph_a_star_search(Self, nodes, start, goal))
                   ELSE SearchAt("graph_a_star", "loop", {}, start, <<goal>>, FALSE,
                                 AStarStart(Ids(nodes), start), NoPath)
    /\ UNCHANGED <<abstract_path, update, raw_chunks, width, height, neighborhood, config, iter_order, grid,
                   nodes, chunks, changes, result>>

\* one round of the loop of graph::a_star_search
PopGraphAStar ==
    /\ search.kind = "graph_a_star"
    /\ search.pc = "loop"
    /\ LET Popped(st1) ==
               search' = IF LoopEnds(AStarBreaks(search.goals[1], search.st), st1)
                         THEN [search EXCEPT !.st = st1, !.current = Some(HeapTop(search.st.next)),
                                 !.pc = "returned",
                                 !.out = AStarResult(search.start, search.goals[1], st1)]
                         ELSE [search EXCEPT !.st = st1, !.current = Some(HeapTop(search.st.next))]
       IN Popped(GraphAStarBody(Self, nodes, search.goals[1], search.st))
    /\ UNCHANGED <<abstract_path, update, raw_chunks, width, height, neighborhood, config, iter_order, grid,
                   nodes, chunks, changes, result>>

\* graph::dijkstra_search is called
StartGraphDijkstra ==
    /\ search = NoSearch
    /\ \E start \in Keys(nodes), goals \in GoalIdLists, only_closest_goal \in BOOLEAN :
         search' = SearchAt("graph_dijkstra", "loop", {}, start, goals, only_closest_goal,
                            DijkstraStart(Ids(nodes), start, goals),
                            [panic |-> FALSE, paths |-> <<>>])
    /\ UNCHANGED <<abstract_path, update, raw_chunks, width, height, neighborhood, config, iter_order, grid,
                   nodes, chunks, changes, result>>

\* one round of the loop of graph::dijkstra_search
PopGraphDijkstra ==
    /\ search.kind = "graph_dijkstra"
    /\ search.pc = "loop"
    /\ LET Popped(st1) ==
               search' = IF LoopEnds(DijkstraBreaks(search.only_closest_goal, search.st), st1)
                         THEN [search EXCEPT !.st = st1, !.current = Some(HeapTop(search.st.next)),
                                 !.pc = "returned",
                                 !.out = DijkstraResult(search.start, st1)]
                         ELSE [search EXCEPT !.st = st1, !.current = Some(HeapTop(search.st.next))]
       IN Popped(GraphDijkstraBody(Self, nodes, search.only_closest_goal, search.st))
    /\ UNCHANGED <<abstract_path, update, raw_chunks, width, height, neighborhood, config, iter_order, grid,
                   nodes, chunks, changes, result>>

NextSearch ==
    \/ StartAStar \/ PopAStar \/ StartDijkstra \/ PopDijkstra
    \/ StartGraphAStar \/ PopGraphAStar \/ StartGraphDijkstra \/ PopGraphDijkstra

\* the searches on the grids and graphs of the built caches
SpecSearch == InitSearch /\ [][NextSearch]_vars

-----------------------------------------------------------------------------
(* An AbstractPath in the hands of a caller: it is made by new or           *)
(* from_known_path, grows by add_path_segment, add_path and add_node, and   *)
(* is iterated by next and safe_next, one call at a time.                   *)

\* the most segments a path is given
MaxSegments == 3

\* the setup whose grid the paths run over
PathSetups == {1}

\* the cells the paths run between
PathEnds == {<<0, 2>>, <<2, 2>>, <<2, 4>>}

\* the grid paths the caller hands in: a least-cost path for every ordered
\* pair of PathEnds
KnownPaths ==
    {a_star_search(Setups[1].env, AllValid(Setups[1].env), Built[1].grid, a, b).path :
       <<a, b>> \in {pq \in PathEnds \X PathEnds : pq[1] # pq[2]}}

\* the path held after the call op: the AbstractPath, whether the call
\* panicked, and the cells the iteration has yielded so far
Held(op, ap, panic, cells) == [op |-> op, ap |-> ap, panic |-> panic, cells |-> cells]

InitPath ==
    /\ Init
    /\ \E i \in PathSetups : grid = Built[i].grid /\ config = Setups[i].env.config
                             /\ neighborhood = Setups[i].env.neighborhood
                             /\ iter_order = Setups[i].env.iter_order

\* the path can take another call
Usable == abstract_path # NoAbstractPath /\ ~abstract_path.panic

\* AbstractPath::new(start)
CallNew ==
    /\ abstract_path = NoAbstractPath
    /\ \E start \in PathEnds : abstract_path' = Held("new", APNew(start), FALSE, <<>>)
    /\ UNCHANGED <<search, update, raw_chunks, width, height, neighborhood, config,
                   iter_order, grid, nodes, chunks, changes, result>>

\* AbstractPath::from_known_path(path)
CallFromKnownPath ==
    /\ abstract_path = NoAbstractPath
    /\ \E path \in KnownPaths :
         abstract_path' = Held("from_known_path", APFromKnownPath(path), FALSE, <<>>)
    /\ UNCHANGED <<search, update, raw_chunks, width, height, neighborhood, config,
                   iter_order, grid, nodes, chunks, changes, result>>

\* AbstractPath::add_path_segment(path): the assertion, then the push
CallAddPathSegment ==
    /\ Usable
    /\ Len(abstract_path.ap.path) < MaxSegments
    /\ \E path \in KnownPaths, known \in BOOLEAN :
         abstract_path' =
             IF ~APCanAddSegment(abstract_path.ap, SegNew(path, known))
             THEN [abstract_path EXCEPT !.op = "add_path_segment", !.panic = TRUE]
             ELSE [abstract_path EXCEPT
                     !.op = "add_path_segment",
                     !.ap = APAddPathSegment(@, SegNew(path, known))]
    /\ UNCHANGED <<search, update, raw_chunks, width, height, neighborhood, config,
                   iter_order, grid, nodes, chunks, changes, result>>

\* AbstractPath::add_path(path)
CallAddPath ==
    /\ Usable
    /\ Len(abstract_path.ap.path) < MaxSegments
    /\ \E path \in KnownPaths :
         abstract_path' = [abstract_path EXCEPT !.op = "add_path",
                                                !.ap = APAddPath(@, path)]
    /\ UNCHANGED <<search, update, raw_chunks, width, height, neighborhood, config,
                   iter_order, grid, nodes, chunks, changes, result>>

\* AbstractPath::add_node(node, cost, len), with the cost and the length of
\* a grid path from the end of the path to node
CallAddNode ==
    /\ Usable
    /\ Len(abstract_path.ap.path) < MaxSegments
    /\ \E path \in KnownPaths :
         /\ PathAt(path, 0) = abstract_path.ap.end
         /\ abstract_path' =
                [abstract_path EXCEPT
                   !.op = "add_node",
                   !.ap = APAddNode(@, PathAt(path, PathLen(path) - 1), path.cost,
                                    PathLen(path))]
    /\ UNCHANGED <<search, update, raw_chunks, width, height, neighborhood, config,
                   iter_order, grid, nodes, chunks, changes, result>>

\* what a call of next or safe_next that returned r leaves behind
Yielded(op, r) ==
    Held(op, r.ap, r.panic,
         IF r.item = None THEN abstract_path.cells
         ELSE Append(abstract_path.cells, r.item[1]))

\* Iterator::next
CallNext ==
    /\ Usable
    /\ abstract_path' = Yielded("next", APNext(abstract_path.ap))
    /\ UNCHANGED <<search, update, raw_chunks, width, height, neighborhood, config,
                   iter_order, grid, nodes, chunks, changes, result>>

\* AbstractPath::safe_next(get_cost)
CallSafeNext ==
    /\ Usable
    /\ abstract_path' = Yielded("safe_next", APSafeNext(Self, abstract_path.ap, grid))
    /\ UNCHANGED <<search, update, raw_chunks, width, height, neighborhood, config,
                   iter_order, grid, nodes, chunks, changes, result>>

NextPath ==
    \/ CallNew
    \/ CallFromKnownPath
    \/ CallAddPathSegment
    \/ CallAddPath
    \/ CallAddNode
    \/ CallNext
    \/ CallSafeNext

SpecPath == InitPath /\ [][NextPath]_vars

-----------------------------------------------------------------------------
(* The contract of the queries and of tiles_changed *)

\* the goal of a find_path call
Goal == result.goals[1]

\* the goals handed to the last query
GoalSet == {result.goals[i] : i \in 1..Len(result.goals)}

\* the last operation was a query that hands back paths
IsQuery == result.op \in {"find_path", "find_paths", "find_closest_goal"}

\* a plain grid A* search from the start of the last query finds a path to goal
Reachable(goal) == grid_a_star(Self, result.start, goal, grid).found

\* the cost of the optimal grid A* path from the start of the last query
OptimalCost(goal) == grid_a_star(Self, result.start, goal, grid).path.cost

AllKnown(ap) == \A i \in 1..Len(ap.path) : ap.path[i].known

\* the cells the caller gets by iterating the path to its end: with next()
\* when every segment is Known, with safe_next(cost_fn) otherwise
Resolved(ap) ==
    IF AllKnown(ap) THEN CollectNext(ap, <<>>) ELSE CollectSafeNext(Self, ap, grid, <<>>)

\* the path find_path hands back for start = goal: from_slice(&[start, start], 0)
Stays(ap) ==
    /\ Len(ap.path) = 1
    /\ ap.path[1].known
    /\ PathPoints(ap.path[1].path) = <<result.start, result.start>>

\* the walk of a returned path: the start cell, then the resolved cells
Walk(ap) ==
    IF Stays(ap) THEN <<result.start>> ELSE <<result.start>> \o Resolved(ap).cells

\* b is a neighbour of a under the neighborhood of the cache
Adjacent(a, b) ==
    LET ns == get_all_neighbors(Self, a) IN \E i \in 1..Len(ns) : ns[i] = b

Contiguous(cs) == \A i \in 1..(Len(cs) - 1) : Adjacent(cs[i], cs[i + 1])

RECURSIVE SumCosts(_)
\* the walk costs of the cells that are left: every cell but the last
SumCosts(cs) == IF Len(cs) < 2 THEN 0 ELSE grid[cs[1]] + SumCosts(Tail(cs))

\* C1: on a cache built from the grid, if a plain grid A* search from a
\* non-wall start to the goal finds a path, find_path returns Some path
C1_FindPathFindsWhatGridAStarFinds ==
    (/\ result.op = "find_path"
     /\ changes = 0
     /\ grid[result.start] >= 0
     /\ Reachable(Goal))
    => Goal \in DOMAIN result.paths

\* the abstract graph by position: the node positions, and every edge as
\* <<source position, target position, cost>>
GraphView(cache) ==
    [positions |-> {NodeOf(cache.nodes, id).pos : id \in Keys(cache.nodes)},
     edges |-> {<<NodeOf(cache.nodes, id).pos, NodeOf(cache.nodes, other).pos,
                  SegCost(NodeOf(cache.nodes, id).edges[other])>> :
                  <<id, other>> \in {e \in Keys(cache.nodes) \X Keys(cache.nodes) :
                                       e[2] \in DOMAIN NodeOf(cache.nodes, e[1]).edges}}]

\* C2: after tiles_changed the cache has the node positions and the edges
\* (endpoint positions and cost) of a cache built afresh from the changed grid
C2_TilesChangedEqualsFreshBuild ==
    (changes > 0 /\ result = Idle)
    => GraphView(TheCache) = GraphView(new_internal(Self, grid))

\* C3: after tiles_changed, find_path from a non-wall start returns Some
\* exactly when the goal is reachable in the grid as it is after the change
C3_FindPathAnswersForTheCurrentGrid ==
    (/\ result.op = "find_path"
     /\ changes > 0
     /\ grid[result.start] >= 0)
    => ((Goal \in DOMAIN result.paths) <=> Reachable(Goal))

\* C4: in every path find_path or find_paths returns, consecutive cells of
\* the walk (the start cell, then the resolved cells) are neighbours
C4_ConsecutiveCellsAreNeighbours ==
    result.op \in {"find_path", "find_paths"}
    => \A q \in DOMAIN result.paths : Contiguous(Walk(result.paths[q]))

\* C5: in every path find_path or find_paths returns, every cell of the walk
\* except possibly the last one, the goal, has a non-negative cost
C5_NoPathPassesThroughAWall ==
    result.op \in {"find_path", "find_paths"}
    => \A q \in DOMAIN result.paths :
         LET cs == Walk(result.paths[q])
         IN \A i \in 1..(Len(cs) - 1) : grid[cs[i]] >= 0

\* a query after a change of the grid returned a path of several segments
\* that walks over at least four cells, in a grid that holds walls
C5_Witness ==
    /\ result.op \in {"find_path", "find_paths"}
    /\ changes > 0
    /\ \E p \in DOMAIN grid : grid[p] < 0
    /\ \E q \in DOMAIN result.paths :
         /\ Len(result.paths[q].path) >= 2
         /\ Len(Walk(result.paths[q])) >= 4

\* C6: the total cost of every path find_path or find_paths returns is the
\* sum of the walk costs of the cells of the walk that are left (the start
\* included, the goal excluded)
C6_TotalCostIsSumOfWalkCosts ==
    result.op \in {"find_path", "find_paths"}
    => \A q \in DOMAIN result.paths :
         APCost(result.paths[q]) = SumCosts(Walk(result.paths[q]))

\* C7: with perfect_paths, the cost of the path find_path returns for a
\* reachable goal that is not a wall is the cost of the optimal grid A* path
C7_PerfectPathsAreOptimal ==
    (/\ result.op = "find_path"
     /\ config.perfect_paths
     /\ grid[result.start] >= 0
     /\ grid[Goal] >= 0
     /\ Reachable(Goal)
     /\ Goal \in DOMAIN result.paths)
    => APCost(result.paths[Goal]) = OptimalCost(Goal)

\* the abstract segments that stitching dropped for the goals of the last query
Dropped ==
    {result.skips[q].first[1] : q \in {o \in DOMAIN result.skips : result.skips[o].first # None}}
    \cup
    {result.skips[q].last[1] : q \in {o \in DOMAIN result.skips : result.skips[o].last # None}}

\* both endpoints of the segment lie in the rectangle of one chunk
WithinOneChunk(seg) ==
    \E i \in 1..Len(chunks) :
        in_chunk(chunks[i], SegStart(seg)) /\ in_chunk(chunks[i], SegEnd(seg))

\* C8 (as amended): stitching drops the first abstract segment with the start
\* attachment, or the last one with the goal attachment, only if the
\* endpoints of that segment lie in one chunk
C8_DroppedSegmentLiesInOneChunk ==
    IsQuery => \A seg \in Dropped : WithinOneChunk(seg)

\* a query returned paths and stitching dropped a segment for one of them
C8_Witness ==
    /\ IsQuery
    /\ ~result.panic
    /\ \E q \in DOMAIN result.paths \cap DOMAIN result.skips :
         result.skips[q].first # None \/ result.skips[q].last # None

\* C8: stitching drops the first or the last abstract segment only if its
\* endpoints lie in one chunk and the segment is Known
C8_DroppedSegmentLiesInOneChunkAndIsKnown ==
    IsQuery => \A seg \in Dropped : WithinOneChunk(seg) /\ seg.known

\* C9: find_closest_goal returns an entry of find_paths(start, goals) whose
\* cost is the least of all entries, and None only if find_paths returns no
\* entry
C9_ClosestGoalIsCheapestOfFindPaths ==
    LET all == find_paths(Self, TheCache, result.start, result.goals, grid)
    IN (result.op = "find_closest_goal" /\ ~result.panic /\ ~all.panic)
       => IF DOMAIN all.paths = {} THEN DOMAIN result.paths = {}
          ELSE \E q \in DOMAIN result.paths :
                 /\ q \in DOMAIN all.paths
                 /\ \A o \in DOMAIN all.paths :
                      APCost(result.paths[q]) <= APCost(all.paths[o])

\* C10: the map find_paths returns from a non-wall start has an entry for
\* every goal that is reachable from the start and for no other goal
C10_FindPathsHasEveryReachableGoal ==
    (result.op = "find_paths" /\ ~result.panic /\ grid[result.start] >= 0)
    => DOMAIN result.paths = {goal \in GoalSet : Reachable(goal)}

\* what a caller sees of an Answer: whether the call panicked, the goals it
\* holds a path for, and the cells each path yields
Seen(answer) ==
    [panic |-> answer.panic,
     cells |-> [q \in DOMAIN answer.paths |-> Resolved(answer.paths[q])]]

\* C11: for every start and goal, find_paths(start, [goal]) holds a path for
\* goal exactly when find_path(start, goal) returns one, and both yield the
\* same cell sequence
C11_SingleGoalFindPathsEqualsFindPath ==
    (result.op = "find_paths" /\ Len(result.goals) = 1)
    => Seen(result) = Seen(find_path(Self, TheCache, result.start, Goal, grid))

C11_Witness ==
    /\ result.op = "find_paths" /\ Len(result.goals) = 1
    /\ result.start # Goal
    /\ ~result.panic
    /\ Goal \in DOMAIN result.paths
    /\ Len(Resolved(result.paths[Goal]).cells) > 2

\* C12: if the start cell is a wall, find_path returns None and find_paths
\* returns an empty map, without a panic, whatever the goals are
C12_WallStartFindsNothing ==
    (result.op \in {"find_path", "find_paths"} /\ grid[result.start] < 0)
    => (~result.panic /\ DOMAIN result.paths = {})

C12_Witness ==
    /\ result.op = "find_paths"
    /\ grid[result.start] < 0
    /\ result.start \in GoalSet
    /\ \E goal \in GoalSet : grid[goal] >= 0
    /\ DOMAIN result.paths = {}

\* C13: if start = goal and the start is not a wall, find_path returns the
\* degenerate two-point path [start, start] with cost 0
C13_SameStartAndGoalGivesDegeneratePath ==
    (result.op = "find_path" /\ result.start = Goal /\ grid[result.start] >= 0)
    => /\ ~result.panic
       /\ DOMAIN result.paths = {Goal}
       /\ Stays(result.paths[Goal])
       /\ APCost(result.paths[Goal]) = 0
       /\ SegCost(result.paths[Goal].path[1]) = 0

C13_Witness ==
    /\ result.op = "find_path" /\ result.start = Goal /\ grid[result.start] >= 0
    /\ Goal \in DOMAIN result.paths
    /\ node_at(TheCache, Goal) = None

\* the indices of the segments of ap that are not Known
UnknownAt(ap) == {i \in 0..(Len(ap.path) - 1) : ~At(ap.path, i).known}

\* C14: next() on a returned path whose current segment is not Known panics:
\* it returns neither a cell nor None, at whichever segment the iteration stands
C14_NextPanicsOnUnknownSegment ==
    IsQuery => \A q \in DOMAIN result.paths :
                 /\ \A i \in UnknownAt(result.paths[q]), j \in {0, 1} :
                      APNext([result.paths[q] EXCEPT !.current_index = <<i, j>>]).panic
                 /\ UnknownAt(result.paths[q]) # {}
                      => CollectNext(result.paths[q], <<>>).panic

C14_Witness ==
    /\ IsQuery
    /\ \E q \in DOMAIN result.paths :
         /\ Len(result.paths[q].path) >= 2
         /\ result.paths[q].path[1].known
         /\ ~result.paths[q].path[2].known
         /\ CollectNext(result.paths[q], <<>>).panic
         /\ CollectNext(result.paths[q], <<>>).cells # <<>>

\* the chunk of the start of the last query
StartChunk == get_chunk(Self, TheCache, result.start)

\* the start of the last query is walkable, is no node, and no node of its
\* chunk can be reached from it inside the chunk
InCave ==
    /\ grid[result.start] >= 0
    /\ node_at(TheCache, result.start) = None
    /\ \A id \in StartChunk.nodes :
         ~ChunkFindPath(Self, StartChunk, result.start, NodeOf(nodes, id).pos, grid).found

\* the path to goal is one Known segment from the start to goal that stays in
\* the chunk of the start and costs what the chunk-bounded search finds
FromChunkSearch(ap, goal) ==
    LET found == ChunkFindPath(Self, StartChunk, result.start, goal, grid)
    IN /\ Len(ap.path) = 1
       /\ ap.path[1].known
       /\ PathAt(ap.path[1].path, 0) = result.start
       /\ PathAt(ap.path[1].path, PathLen(ap.path[1].path) - 1) = goal
       /\ \A i \in 0..(PathLen(ap.path[1].path) - 1) :
            in_chunk(StartChunk, PathAt(ap.path[1].path, i))
       /\ APCost(ap) = found.path.cost

\* C15: whatever a_star_fallback is, when the start has no reachable node in
\* its chunk, find_path and find_paths answer from a search of that chunk: a
\* goal has a path exactly when the chunk-bounded search reaches it
C15_CaveEscapeIgnoresFallback ==
    (result.op \in {"find_path", "find_paths"} /\ InCave)
    => /\ ~result.panic
       /\ DOMAIN result.paths
            = {goal \in GoalSet :
                 ChunkFindPath(Self, StartChunk, result.start, goal, grid).found}
       /\ \A goal \in DOMAIN result.paths : FromChunkSearch(result.paths[goal], goal)

C15_Witness ==
    /\ result.op = "find_path" /\ InCave
    /\ ~config.a_star_fallback
    /\ result.start # Goal
    /\ Goal \in DOMAIN result.paths

\* C16: the cache that the parallel arm builds has the node positions and
\* the edges (endpoint positions and cost) of the sequential build, in
\* whatever order the workers finished
C16_ParallelBuildEqualsSequentialBuild ==
    chunks # <<>> => GraphView(TheCache) = GraphView(new_internal(Self, grid))

C16_Witness ==
    /\ chunks # <<>>
    /\ raw_chunks = <<>>
    /\ \E id \in Keys(nodes) :
         \E other \in DOMAIN NodeOf(nodes, id).edges :
           get_chunk_index(Self, NodeOf(nodes, id).pos) > 0
           /\ same_chunk(Self, NodeOf(nodes, id).pos, NodeOf(nodes, other).pos)

\* C17: in any sequence of add_node, remove_node and absorb, every live node
\* carries the id of its slot, so no two live nodes share an id; and a step
\* never hands the id of a live node to another node: a node that stays live
\* keeps its position, add_node makes one more live node and absorb as many
\* more as the absorbed map holds
C17_LiveIdsAreUnique ==
    [][/\ \A id \in Keys(nodes') : NodeOf(nodes', id).id = id
       /\ \A id \in Keys(nodes) \cap Keys(nodes') :
            NodeOf(nodes', id).pos = NodeOf(nodes, id).pos
       /\ result'.op = "add_node" => Cardinality(Keys(nodes')) = Cardinality(Keys(nodes)) + 1
       /\ result'.op = "absorb" => Cardinality(Keys(nodes')) >= Cardinality(Keys(nodes)) + 2
       /\ result'.op = "remove_node" => Cardinality(Keys(nodes')) = Cardinality(Keys(nodes)) - 1]_vars

C17_Witness ==
    /\ result.op = "add_node"
    /\ \E id \in 0..(Len(nodes.nodes) - 1) : ~IsLive(nodes, id)
    /\ Cardinality(Keys(nodes)) >= 3

\* the position index agrees with the live nodes: it maps the position of
\* every live node to its id, and holds nothing for any other position
PosIndexInSync(nm) ==
    /\ \A id \in Keys(nm) : id_at(nm, NodeOf(nm, id).pos) = Some(id)
    /\ \A pos \in DOMAIN nm.pos_map :
         id_at(nm, pos) # None
         => (IsLive(nm, id_at(nm, pos)[1]) /\ NodeOf(nm, id_at(nm, pos)[1]).pos = pos)

\* C20 (as amended): an add_node for a position that holds no live node, and
\* a remove_node, keep the position index in agreement with the live nodes
C20_FreeAddAndRemoveKeepIndexInSync ==
    [][(/\ PosIndexInSync(nodes)
        /\ result'.op \in {"add_node", "remove_node"}
        /\ result'.op = "add_node" => id_at(nodes, result'.start) = None)
       => PosIndexInSync(nodes')]_vars

C20_Witness ==
    /\ result.op = "remove_node"
    /\ PosIndexInSync(nodes)
    /\ Cardinality(Keys(nodes)) >= 2
    /\ id_at(nodes, result.start) = None

\* C20: after any sequence of add_node and remove_node the position index
\* maps the position of every live node to its id and holds no other entry
C20_IndexInSyncAfterAnySequence ==
    result.op \in {"add_node", "remove_node"} => PosIndexInSync(nodes)

\* the edges of the abstract graph: <<segment, walk cost of its source node,
\* walk cost of its target node>>, each Known segment also as the Unknown
\* segment of the same path
EdgeSegments ==
    UNION {{<<NodeOf(nodes, e[1]).edges[e[2]],
              NodeOf(nodes, e[1]).walk_cost, NodeOf(nodes, e[2]).walk_cost>>}
           \cup (IF NodeOf(nodes, e[1]).edges[e[2]].known
                 THEN {<<SegNew(NodeOf(nodes, e[1]).edges[e[2]].path, FALSE),
                         NodeOf(nodes, e[1]).walk_cost, NodeOf(nodes, e[2]).walk_cost>>}
                 ELSE {}) :
           e \in {e \in Keys(nodes) \X Keys(nodes) :
                    IsLive(nodes, e[2]) /\ e[2] \in DOMAIN NodeOf(nodes, e[1]).edges}}

\* the segments have the same points, or the same ends and length, and the
\* same cost
SameSegment(p, q) ==
    /\ p.known = q.known
    /\ SegCost(p) = SegCost(q)
    /\ SegLen(p) = SegLen(q)
    /\ SegStart(p) = SegStart(q)
    /\ SegEnd(p) = SegEnd(q)
    /\ p.known => PathPoints(p.path) = PathPoints(q.path)

\* C18: for every segment p of the graph, with a and b the walk costs of its
\* ends, reversed(a, b) stays within the unsigned costs and
\* p.reversed(a, b).reversed(b, a) equals p in its points and in its cost
C18_ReversingTwiceGivesTheSegment ==
    \A t \in EdgeSegments :
      /\ SegCost(t[1]) - t[2] >= 0
      /\ SegCost(SegReversed(t[1], t[2], t[3])) - t[3] >= 0
      /\ SameSegment(SegReversed(SegReversed(t[1], t[2], t[3]), t[3], t[2]), t[1])

C18_Witness ==
    \E t \in EdgeSegments :
      /\ t[2] # t[3]
      /\ SegLen(t[1]) > 2
      /\ ~t[1].known
      /\ SegStart(SegReversed(t[1], t[2], t[3])) = SegEnd(t[1])
      /\ SegCost(SegReversed(t[1], t[2], t[3])) # SegCost(t[1])

\* the number of parts of length s that cover a length of n
Ceil(n, s) == (n + s - 1) \div s

\* C19: once the cache is built it holds ceil(W/s) * ceil(H/s) chunks, every
\* chunk lies within the grid and is chunk_size wide and high unless the grid
\* ends before, and every point of the grid lies in the chunk at
\* get_chunk_index(point) and in no other chunk
C19_ChunksTileTheGrid ==
    result.op # "idle" =>
      /\ Len(chunks) = Ceil(width, config.chunk_size) * Ceil(height, config.chunk_size)
      /\ \A i \in 0..(Len(chunks) - 1) :
           /\ ChunkLeft(At(chunks, i)) < ChunkRight(At(chunks, i))
           /\ ChunkTop(At(chunks, i)) < ChunkBottom(At(chunks, i))
           /\ ChunkRight(At(chunks, i)) =
                 IF ChunkLeft(At(chunks, i)) + config.chunk_size <= width
                 THEN ChunkLeft(At(chunks, i)) + config.chunk_size ELSE width
           /\ ChunkBottom(At(chunks, i)) =
                 IF ChunkTop(At(chunks, i)) + config.chunk_size <= height
                 THEN ChunkTop(At(chunks, i)) + config.chunk_size ELSE height
      /\ \A point \in Points(Self) :
           /\ get_chunk_index(Self, point) \in 0..(Len(chunks) - 1)
           /\ \A i \in 0..(Len(chunks) - 1) :
                in_chunk(At(chunks, i), point) <=> i = get_chunk_index(Self, point)

C19_Witness ==
    /\ result.op = "get_chunk"
    /\ width % config.chunk_size # 0
    /\ height % config.chunk_size = 0
    /\ NumChunks(Self, width) > NumChunks(Self, height)
    /\ NumChunks(Self, height) > 1
    /\ result.start[1] >= (NumChunks(Self, width) - 1) * config.chunk_size
    /\ result.start[2] >= config.chunk_size
    /\ get_chunk(Self, TheCache, result.start).size[1] < config.chunk_size

\* C21: after remove_node(id), no node that is left has an edge whose target
\* is id
C21_RemovedNodeHasNoIncomingEdge ==
    [][(result'.op = "remove_node" /\ changes' = changes + 1) =>
         \A id \in Keys(nodes) \ Keys(nodes') :
           \A other \in Keys(nodes') : id \notin DOMAIN NodeOf(nodes', other).edges]_vars

\* absorb brought two nodes with an edge between them, remove_node removed one
C21_Witness ==
    /\ result.op = "remove_node"
    /\ changes = 2
    /\ Len(nodes.nodes) = 2
    /\ \E id \in Keys(nodes) : DOMAIN NodeOf(nodes, id).edges = {}

\* the edge a -> b has an edge b -> a on the peer
Reciprocal(a, b) ==
    /\ IsLive(nodes, b)
    /\ a \in DOMAIN NodeOf(nodes, b).edges

\* C22 as stated: every edge a -> b of the graph has an edge b -> a of equal
\* cost on the peer
C22_ReciprocalEdgesOfEqualCost ==
    \A a \in Keys(nodes) : \A b \in DOMAIN NodeOf(nodes, a).edges :
        /\ Reciprocal(a, b)
        /\ SegCost(NodeOf(nodes, b).edges[a]) = SegCost(NodeOf(nodes, a).edges[b])

\* C22: every edge a -> b of the graph has an edge b -> a on the peer, whose
\* cost is the cost of a -> b less the walk cost of a plus the walk cost of b,
\* and whose ends are the ends of a -> b in the other order
C22_ReciprocalEdgesOfReversedCost ==
    \A a \in Keys(nodes) : \A b \in DOMAIN NodeOf(nodes, a).edges :
        /\ Reciprocal(a, b)
        /\ SegCost(NodeOf(nodes, b).edges[a]) =
             SegCost(NodeOf(nodes, a).edges[b])
               - NodeOf(nodes, a).walk_cost + NodeOf(nodes, b).walk_cost
        /\ SegStart(NodeOf(nodes, b).edges[a]) = SegEnd(NodeOf(nodes, a).edges[b])
        /\ SegEnd(NodeOf(nodes, b).edges[a]) = SegStart(NodeOf(nodes, a).edges[b])
        /\ SegLen(NodeOf(nodes, b).edges[a]) = SegLen(NodeOf(nodes, a).edges[b])

\* tiles_changed has run and an edge joins nodes of different walk costs
C22_Witness ==
    /\ changes > 0
    /\ \E a \in Keys(nodes) : \E b \in DOMAIN NodeOf(nodes, a).edges :
         /\ NodeOf(nodes, a).walk_cost # NodeOf(nodes, b).walk_cost
         /\ SegLen(NodeOf(nodes, a).edges[b]) > 2

\* the segment handed to the add_edge call that led to this state
Inserted == result.paths[result.goals[1]]

WallNodes(nm) == {b \in Keys(nm) : NodeOf(nm, b).walk_cost < 0}

\* C24 as stated: no wall node has an outgoing edge
C24_WallNodesHaveNoOutgoingEdge ==
    \A b \in WallNodes(nodes) : DOMAIN NodeOf(nodes, b).edges = {}

\* C24: add_edge from a wall node panics and leaves the map as it is; and a
\* wall node only ever holds, for a node a that has an edge to it, the entry
\* that add_edge puts in place of the reversed path: an Unknown segment from a
\* to the wall of cost and length usize::MAX
C24_WallNodesHoldOnlyPlaceholders ==
    [][/\ (/\ result'.op = "add_edge"
            /\ changes' = changes + 1
            /\ grid[result'.start] < 0)
           => (result'.panic /\ nodes' = nodes)
       /\ \A b \in WallNodes(nodes') : \A a \in DOMAIN NodeOf(nodes', b).edges :
            /\ IsLive(nodes', a)
            /\ b \in DOMAIN NodeOf(nodes', a).edges
            /\ NodeOf(nodes', b).edges[a] =
                 [known |-> FALSE, start |-> NodeOf(nodes', a).pos,
                  end |-> NodeOf(nodes', b).pos, cost |-> UsizeMax, len |-> UsizeMax]]_vars

\* a wall node is the target of an edge, and add_edge from a wall node was
\* called
C24_Witness ==
    /\ result.op = "add_edge"
    /\ result.panic
    /\ \E b \in WallNodes(nodes) : DOMAIN NodeOf(nodes, b).edges # {}

\* the node n of the node map local of a worker is, after the merge into nm,
\* the node new of the chunk c
AbsorbedAs(env, local, n, nm, c, new) ==
    /\ IsLive(nm, new)
    /\ new \in c.nodes
    /\ NodeOf(nm, new).id = new
    /\ NodeOf(nm, new).pos = n.pos
    /\ NodeOf(nm, new).walk_cost = n.walk_cost
    /\ \A t \in DOMAIN n.edges :
         /\ id_at(nm, NodeOf(local, t).pos) # None
         /\ id_at(nm, NodeOf(local, t).pos)[1] \in DOMAIN NodeOf(nm, new).edges
         /\ SegCost(NodeOf(nm, new).edges[id_at(nm, NodeOf(local, t).pos)[1]])
              = SegCost(n.edges[t])
         /\ SegStart(NodeOf(nm, new).edges[id_at(nm, NodeOf(local, t).pos)[1]]) = n.pos
         /\ SegEnd(NodeOf(nm, new).edges[id_at(nm, NodeOf(local, t).pos)[1]])
              = NodeOf(local, t).pos
    /\ \A k \in DOMAIN NodeOf(nm, new).edges :
         /\ IsLive(nm, k)
         /\ SegEnd(NodeOf(nm, new).edges[k]) = NodeOf(nm, k).pos
         /\ \/ \E t \in DOMAIN n.edges : NodeOf(local, t).pos = NodeOf(nm, k).pos
            \/ \E j \in 1..Len(get_all_neighbors(env, n.pos)) :
                  get_all_neighbors(env, n.pos)[j] = NodeOf(nm, k).pos

\* C25: when the node maps of the workers are absorbed into the map of the
\* cache, every node of a worker is live in the map of the cache at its
\* position and in its chunk, every edge of it leads to the id that the map of
\* the cache has at the position the edge led to, and no edge of it leads
\* anywhere else but to the neighbours that connect_nodes links
C25_AbsorbedEdgesLeadToSharedIds ==
    [][(raw_chunks # <<>> /\ raw_chunks' = <<>>) =>
         \A i \in 1..Len(raw_chunks) :
           \A old \in Keys(raw_chunks[i][1].nodes) :
             /\ id_at(nodes', NodeOf(raw_chunks[i][1].nodes, old).pos) # None
             /\ AbsorbedAs(Self, raw_chunks[i][1].nodes,
                           NodeOf(raw_chunks[i][1].nodes, old), nodes', chunks'[i],
                           id_at(nodes', NodeOf(raw_chunks[i][1].nodes, old).pos)[1])]_vars

\* the merge is over, and a node of a later chunk, whose id in the map of its
\* worker was another one, has an edge within its chunk
C25_Witness ==
    /\ chunks # <<>>
    /\ raw_chunks = <<>>
    /\ \E i \in 2..Len(chunks) : \E id \in chunks[i].nodes :
         /\ id >= Cardinality(chunks[1].nodes) + Cardinality(chunks[i].nodes)
         /\ \E other \in chunks[i].nodes \cap DOMAIN NodeOf(nodes, id).edges :
              SegLen(NodeOf(nodes, id).edges[other]) > 2

-----------------------------------------------------------------------------
(* The phases of tiles_changed *)

\* renew has been established in the call under way
RenewKnown == update.pc \notin {"none", "establish renew"}

\* the set of the tiles of a slice
TilesOf(tiles) == {tiles[i] : i \in 1..Len(tiles)}

\* the tiles of a slice that lie on the side dir of the chunk c
OwnChanged(c, tiles, dir) == {p \in TilesOf(tiles) : in_chunk(c, p) /\ at_side(c, p, dir)}

\* the marking of the side dir of the chunk c in renew
MarkOf(renew, c, dir) == At(RenewEntry(renew, c.pos), dir)

\* renew as the marking loops leave it for a slice
RenewFor(tiles) ==
    MarkChunks(Self, TheCache, NoRenew, Dirty(Self, tiles),
               IterPoints(Self, DOMAIN Dirty(Self, tiles)))

\* C26: in tiles_changed, on every side of a chunk that has a peer: two
\* distinct changed corners of the side mark it All, one changed corner p,
\* with or without changed tiles that are no corners, marks it Corner(p),
\* changed tiles none of which is a corner mark it Inner, and a side that a
\* slice marks All is marked All by every longer slice
C26_MarkingCombines ==
    RenewKnown =>
      \A i \in 1..Len(chunks) : \A dir \in 0..3 :
        At(chunks[i].sides, dir) =>
          LET Combined(own, corners, mark) ==
                  /\ Cardinality(corners) >= 2 => mark = RenewAll
                  /\ \A p \in corners : corners = {p} => mark = RenewCorner(p)
                  /\ (corners = {} /\ own # {}) => mark = RenewInner
              Own(own) ==
                  Combined(own, {p \in own : is_corner(chunks[i], p)},
                           MarkOf(update.renew, chunks[i], dir))
          IN /\ Own(OwnChanged(chunks[i], update.tiles, dir))
             /\ \A n \in 1..(Len(update.tiles) - 1) :
                  MarkOf(RenewFor(SubSeq(update.tiles, 1, n)), chunks[i], dir) = RenewAll
                    => MarkOf(update.renew, chunks[i], dir) = RenewAll

\* renew is established for a slice of two corners of one side followed by a
\* tile of that side that is no corner: the side is All, and another side of
\* the chunk, which holds one of the corners, is Corner
C26_Witness ==
    /\ update.pc = "remove nodes"
    /\ Len(update.tiles) = 3
    /\ \E i \in 1..Len(chunks) : \E dir \in 0..3 :
         /\ At(chunks[i].sides, dir)
         /\ is_corner(chunks[i], update.tiles[1])
         /\ is_corner(chunks[i], update.tiles[2])
         /\ update.tiles[1] # update.tiles[2]
         /\ ~is_corner(chunks[i], update.tiles[3])
         /\ TilesOf(update.tiles) = OwnChanged(chunks[i], update.tiles, dir)
         /\ MarkOf(update.renew, chunks[i], dir) = RenewAll
         /\ \E other \in 0..3 : MarkOf(update.renew, chunks[i], other).k = "Corner"

\* the chunk position of the peer of the chunk at cp in direction dir
PeerPos(cp, dir) ==
    jump_in_dir(cp, dir, config.chunk_size, <<0, 0>>, <<width, height>>)[1]

\* C27: in tiles_changed, for every side of a chunk that renew marks and that
\* has a peer chunk, renew marks the facing side of the peer Inner, Corner or
\* All
C27_PeerSideIsMarked ==
    RenewKnown =>
      \A cp \in DOMAIN update.renew : \A dir \in 0..3 :
        (/\ At(update.renew[cp], dir).k # "No"
         /\ At(get_chunk(Self, TheCache, cp).sides, dir))
          => /\ PeerPos(cp, dir) \in DOMAIN update.renew
             /\ At(update.renew[PeerPos(cp, dir)], DirOpposite(dir)).k # "No"

\* renew is established and marks a side of a chunk none of whose tiles changed
C27_Witness ==
    /\ update.pc = "remove nodes"
    /\ \E cp \in DOMAIN update.renew : \E dir \in 0..3 :
         /\ At(update.renew[cp], dir).k = "Corner"
         /\ At(update.renew[PeerPos(cp, dir)], DirOpposite(dir)) = RenewInner
         /\ PeerPos(cp, dir) \notin DOMAIN update.dirty

\* the marking m preserves the node at pos, corner or not
Preserves(m, corner, pos) ==
    \/ m.k = "No"
    \/ corner /\ (m.k = "Inner" \/ (m.k = "Corner" /\ m.p # pos))

\* C28: in the removal phase of tiles_changed, for every chunk, every side of
\* it that has a peer and every node on that side: the node is removed from
\* the node map and from the chunk unless the side is unmarked, or the node is
\* a corner node and the side is marked Inner or Corner(p) for the other
\* corner p; in these cases the node stays, with its position, in both
C28_RemovalFollowsTheMarking ==
    [][(update.pc = "remove nodes" /\ update'.pc = "clear paths") =>
         \A i \in 1..Len(chunks) : \A dir \in 0..3 : \A id \in Keys(nodes) :
           (/\ At(chunks[i].sides, dir)
            /\ in_chunk(chunks[i], NodeOf(nodes, id).pos)
            /\ at_side(chunks[i], NodeOf(nodes, id).pos, dir))
             => IF Preserves(MarkOf(update.renew, chunks[i], dir),
                             is_corner(chunks[i], NodeOf(nodes, id).pos),
                             NodeOf(nodes, id).pos)
                THEN /\ id \in Keys(nodes')
                     /\ NodeOf(nodes', id).pos = NodeOf(nodes, id).pos
                     /\ id \in chunks'[i].nodes
                ELSE /\ id \notin Keys(nodes')
                     /\ id_at(nodes', NodeOf(nodes, id).pos) = None
                     /\ id \notin chunks'[i].nodes]_vars

\* the removal is over for a side marked Corner(p): the node that the built
\* cache had at p is gone, the node at the other corner of the side is there
C28_Witness ==
    /\ update.pc = "clear paths"
    /\ \E i \in 1..Len(chunks) : \E dir \in 0..3 : \E q \in Points(Self) :
         /\ MarkOf(update.renew, chunks[i], dir).k = "Corner"
         /\ id_at(BuiltWide.cache.nodes, MarkOf(update.renew, chunks[i], dir).p) # None
         /\ id_at(nodes, MarkOf(update.renew, chunks[i], dir).p) = None
         /\ q # MarkOf(update.renew, chunks[i], dir).p
         /\ in_chunk(chunks[i], q) /\ at_side(chunks[i], q, dir) /\ is_corner(chunks[i], q)
         /\ id_at(nodes, q) # None

\* the paths have been cleared and no side has been recreated yet
PathsCleared == update.pc = "recreate sides"

\* every node of the chunk c has no edge
NoEdgeIn(c) == \A id \in c.nodes : DOMAIN NodeOf(nodes, id).edges = {}

\* C29 as claimed: when the paths have been cleared, no node of a chunk that
\* holds a changed tile or has a marked side has an edge
C29_AffectedChunksAreCleared ==
    PathsCleared =>
      \A i \in 1..Len(chunks) :
        (\/ chunks[i].pos \in DOMAIN update.dirty
         \/ \E dir \in 0..3 : MarkOf(update.renew, chunks[i], dir).k # "No")
          => NoEdgeIn(chunks[i])

\* C29: in tiles_changed, when the paths have been cleared and before any
\* edge is recomputed, no node of a chunk that holds a changed tile has an
\* edge
C29_ChangedChunksAreCleared ==
    PathsCleared =>
      \A i \in 1..Len(chunks) :
        chunks[i].pos \in DOMAIN update.dirty => NoEdgeIn(chunks[i])

\* the paths have been cleared in two chunks that hold a changed tile, and in
\* each a node is left that had an edge in the built cache
C29_Witness ==
    /\ PathsCleared
    /\ Cardinality(DOMAIN update.dirty) = 2
    /\ \A cp \in DOMAIN update.dirty :
         \E id \in get_chunk(Self, TheCache, cp).nodes :
           /\ id \in Keys(BuiltWide.cache.nodes)
           /\ DOMAIN NodeOf(BuiltWide.cache.nodes, id).edges # {}

-----------------------------------------------------------------------------
(* The nodes across a chunk border *)

\* the cell one step across the side dir of its chunk
Mirror(pos, dir) == jump_in_dir(pos, dir, 1, <<0, 0>>, <<width, height>>)[1]

\* the cell m is no wall and holds a node, and the node id and that node have
\* an edge to each other
Joined(id, m) ==
    /\ grid[m] >= 0
    /\ id_at(nodes, m) # None
    /\ id_at(nodes, m)[1] \in DOMAIN NodeOf(nodes, id).edges
    /\ id \in DOMAIN NodeOf(nodes, id_at(nodes, m)[1]).edges

\* C30: after new and after every tiles_changed, every node of a chunk lies
\* on a side that the chunk shares with a peer such that the cell mirrored
\* across that side is no wall and holds a node, and the two nodes have an
\* edge to each other
C30_BorderNodesHaveAJoinedMirror ==
    \A i \in 1..Len(chunks) : \A id \in chunks[i].nodes : \E dir \in 0..3 :
       /\ At(chunks[i].sides, dir)
       /\ at_side(chunks[i], NodeOf(nodes, id).pos, dir)
       /\ Joined(id, Mirror(NodeOf(nodes, id).pos, dir))

-----------------------------------------------------------------------------
(* The grid search in place of the abstract path *)

\* the number of nodes of the path that find_path finds in the abstract graph
\* for the last query, 0 when it finds none
AbstractLen ==
    LET Along(path) == IF path.panic \/ ~path.found THEN 0 ELSE PathLen(path.path)
        ToGoal(s, gl) ==
            IF gl.panic \/ ~gl.found THEN 0
            ELSE Along(graph_a_star_search(Self, nodes, s.id, gl.id))
        FromStart(s) ==
            IF s.panic \/ ~s.found THEN 0
            ELSE ToGoal(s, find_nearest_node(Self, TheCache, Goal, grid, TRUE))
    IN FromStart(find_nearest_node(Self, TheCache, result.start, grid, FALSE))

\* find_path found a path in the abstract graph for two different cells
AbstractFound ==
    /\ result.op = "find_path"
    /\ ~result.panic
    /\ result.start # Goal
    /\ grid[result.start] >= 0
    /\ AbstractLen > 0

\* the last query handed back what the grid search finds, as one known segment
Direct ==
    LET Same(r) == /\ ~r.panic
                   /\ r.found <=> Goal \in DOMAIN result.paths
                   /\ r.found => result.paths[Goal] = APFromKnownPath(r.path)
    IN Same(grid_a_star(Self, result.start, Goal, grid))

-----------------------------------------------------------------------------
(* The heap of the searches *)

\* a round of the loop of the search under way
Pops == search.kind # "none" /\ search.pc = "loop" /\ search' # search

\* the entry that the round hands out
Popped == HeapTop(search.st.next)

\* C32: in every round of the loop of a grid or graph A* or Dijkstra search,
\* the entry that is popped has a cost recorded for its cell or node, its own
\* cost is not lower than the recorded one and the search does not panic;
\* when its cost is higher, the round only takes it off the heap: visited,
\* the goals and nothing else on the heap changes
C32_PoppedCostIsNeverLower ==
    [][Pops =>
         /\ search.st.visited[Popped.id] # None
         /\ Popped.cost >= search.st.visited[Popped.id][1]
         /\ ~search'.st.panic
         /\ Popped.cost > search.st.visited[Popped.id][1]
              => search'.st = [search.st EXCEPT !.next = HeapPop(@)]]_vars

\* a grid A* search has just popped an entry of higher cost than recorded for
\* its cell, and the search goes on
C32_Witness ==
    /\ search.kind = "a_star"
    /\ search.pc = "loop"
    /\ search.current # None
    /\ search.current[1].cost > search.st.visited[search.current[1].id][1]

-----------------------------------------------------------------------------
(* What the searches find *)

\* the least of a non-empty set of numbers
Least(S) == CHOOSE x \in S : \A y \in S : x <= y

RECURSIVE Distances(_, _, _)
\* the least cost from the start to every id by repeated relaxation: w[a, b]
\* is the cost of the step from a to b, -1 where there is none; d[b] is -1
\* while b is not reached
Distances(ids, w, d) ==
    LET Via(b) == {d[a] + w[a, b] : a \in {a \in ids : d[a] >= 0 /\ w[a, b] >= 0}}
        Known(b) == IF d[b] >= 0 THEN {d[b]} ELSE {}
        Relaxed(d1) == IF d1 = d THEN d ELSE Distances(ids, w, d1)
    IN Relaxed([b \in ids |-> IF Via(b) \cup Known(b) = {} THEN -1
                              ELSE Least(Via(b) \cup Known(b))])

\* the goals of the search under way
SearchGoals == {search.goals[i] : i \in 1..Len(search.goals)}

\* the steps a search over the grid may take: out of a cell that is no wall,
\* to a neighbour that valid accepts and that is no wall or is a goal
GridSteps ==
    [e \in Points(Self) \X Points(Self) |->
       IF /\ grid[e[1]] >= 0
          /\ Adjacent(e[1], e[2])
          /\ e[2] \in search.valid
          /\ (grid[e[2]] >= 0 \/ e[2] \in SearchGoals)
       THEN grid[e[1]] ELSE -1]

\* the steps a search over the abstract graph may take: the edges
GraphSteps ==
    [e \in Keys(nodes) \X Keys(nodes) |->
       IF e[2] \in DOMAIN NodeOf(nodes, e[1]).edges
       THEN SegCost(NodeOf(nodes, e[1]).edges[e[2]]) ELSE -1]

\* the least cost from the start of the search under way to every cell or node
SearchDistances ==
    IF search.kind \in {"a_star", "dijkstra"}
    THEN Distances(Points(Self), GridSteps,
                   [p \in Points(Self) |-> IF p = search.start THEN 0 ELSE -1])
    ELSE Distances(Keys(nodes), GraphSteps,
                   [i \in Keys(nodes) |-> IF i = search.start THEN 0 ELSE -1])

IsDijkstra == search.kind \in {"dijkstra", "graph_dijkstra"}

\* C33: a grid or graph Dijkstra search with only_closest_goal stays in its
\* loop while no goal is found, returns at the pop of the first goal and
\* returns that goal alone, at the least cost of all reachable goals, or
\* nothing when no goal is reachable; without the flag it stays in its loop
\* while a goal remains and the heap is not empty and returns exactly the
\* reachable goals
C33_DijkstraStopsPerFlag ==
    /\ (IsDijkstra /\ search.pc = "loop") =>
          /\ search.st.next # <<>>
          /\ IF search.only_closest_goal THEN search.st.goal_costs = <<>>
             ELSE search.st.remaining_goals # {}
    /\ (IsDijkstra /\ search.pc = "returned") =>
          LET Found(d, reach, found) ==
                  /\ ~search.out.panic
                  /\ IF search.only_closest_goal
                     THEN /\ reach = {} => found = {}
                          /\ reach # {} =>
                               \E q \in reach :
                                 /\ found = {q}
                                 /\ search.current[1].id = q
                                 /\ search.out.paths[q].cost = d[q]
                                 /\ \A r \in reach : d[q] <= d[r]
                     ELSE /\ found = reach
                          /\ search.st.remaining_goals = {} \/ search.st.next = <<>>
              Reach(d) == Found(d, {q \in SearchGoals : d[q] >= 0}, DOMAIN search.out.paths)
          IN Reach(SearchDistances)

\* a grid Dijkstra search with only_closest_goal has returned the second goal
\* of its list alone, with the first goal on its heap at a higher cost
C33_Witness ==
    /\ search.kind = "dijkstra"
    /\ search.pc = "returned"
    /\ search.only_closest_goal
    /\ Len(search.goals) >= 2
    /\ DOMAIN search.out.paths = {search.goals[2]}
    /\ search.st.visited[search.goals[1]] # None
    /\ search.st.visited[search.goals[1]][1] > search.out.paths[search.goals[2]].cost

\* a grid A* search to a goal that is a wall, from another cell that is none
WallGoalSearch ==
    /\ search.kind = "a_star"
    /\ grid[search.goals[1]] < 0
    /\ grid[search.start] >= 0

\* some neighbour of the goal that is no wall is reached from the start over
\* cells that are no walls and that valid accepts, and valid accepts the goal
NeighbourReached(d) ==
    /\ search.goals[1] \in search.valid
    /\ \E n \in Points(Self) :
         /\ grid[n] >= 0
         /\ Adjacent(n, search.goals[1])
         /\ d[n] >= 0

\* C34: a grid A* search to a wall goal enters no wall but the goal (no wall
\* but the goal is in visited or on the heap), enters no cell out of a wall,
\* and, whenever a neighbour of the goal that is no wall is reachable from
\* the start, returns a path that ends in the goal and whose other cells are
\* no walls
C34_WallGoalIsTheOnlyWallEntered ==
    WallGoalSearch =>
      /\ \A p \in Points(Self) :
           search.st.visited[p] # None => (grid[p] >= 0 \/ p = search.goals[1])
      /\ \A p \in Points(Self) :
           (search.st.visited[p] # None /\ p # search.start)
             => grid[search.st.visited[p][2]] >= 0
      /\ \A i \in 1..Len(search.st.next) :
           grid[search.st.next[i].id] >= 0 \/ search.st.next[i].id = search.goals[1]
      /\ search.pc = "returned" =>
           LET Returned(reached) ==
                   reached =>
                     /\ search.out.found
                     /\ PathAt(search.out.path, PathLen(search.out.path) - 1) = search.goals[1]
                     /\ \A i \in 0..(PathLen(search.out.path) - 2) :
                          grid[PathAt(search.out.path, i)] >= 0
           IN Returned(NeighbourReached(SearchDistances))

\* a grid A* search has returned a path of more than two cells to a wall goal
C34_Witness ==
    /\ WallGoalSearch
    /\ search.pc = "returned"
    /\ search.out.found
    /\ PathLen(search.out.path) > 2
    /\ PathAt(search.out.path, PathLen(search.out.path) - 1) = search.goals[1]

-----------------------------------------------------------------------------
(* The cost of an AbstractPath *)

RECURSIVE SumOfCosts(_)
\* the costs of the segments of path, added up
SumOfCosts(path) ==
    IF path = <<>> THEN 0 ELSE SegCost(Head(path)) + SumOfCosts(Tail(path))

\* C35: whatever sequence of add_path_segment, add_path and add_node calls
\* built an abstract path, its stored total cost is the sum of the costs of
\* its segments.
C35_TotalCostIsSumOfSegmentCosts ==
    abstract_path # NoAbstractPath =>
        abstract_path.ap.total_cost = SumOfCosts(abstract_path.ap.path)

\* a path of three segments with a positive cost that add_node has just
\* extended behind a Known segment
C35_Witness ==
    /\ abstract_path # NoAbstractPath
    /\ abstract_path.op = "add_node"
    /\ Len(abstract_path.ap.path) = MaxSegments
    /\ abstract_path.ap.path[1].known
    /\ ~abstract_path.ap.path[3].known
    /\ abstract_path.ap.total_cost > 0

-----------------------------------------------------------------------------
(* The segments of a returned path *)

\* every segment of ap starts where the segment before it ends
SegmentsJoin(ap) ==
    \A i \in 1..(Len(ap.path) - 1) : SegStart(ap.path[i + 1]) = SegEnd(ap.path[i])

\* C36: in every abstract path a query returns, each segment starts at the
\* point the segment before it ends at, the start and goal attachment paths
\* included.
C36_SegmentsOfReturnedPathsJoin ==
    result.op \in {"find_path", "find_paths", "find_closest_goal"}
    => \A q \in DOMAIN result.paths : SegmentsJoin(result.paths[q])

-----------------------------------------------------------------------------
(* The cursor of an AbstractPath *)

\* this step is a call of next or safe_next that leaves the segment the
\* cursor was in for the segment behind it
CrossesBoundary ==
    /\ abstract_path # NoAbstractPath
    /\ abstract_path' # NoAbstractPath
    /\ abstract_path'.op \in {"next", "safe_next"}
    /\ ~abstract_path'.panic
    /\ abstract_path'.ap.current_index[1] = abstract_path.ap.current_index[1] + 1
    /\ abstract_path'.ap.current_index[1] < Len(abstract_path'.ap.path)

\* C37: a call of next or of safe_next that crosses a segment boundary
\* leaves the cursor at (segment_index + 1, 1), past the cell the two
\* segments share.
C37_CursorSkipsTheSharedCell ==
    [][CrossesBoundary =>
         abstract_path'.ap.current_index =
             <<abstract_path.ap.current_index[1] + 1, 1>>]_vars

-----------------------------------------------------------------------------
(* The cost of the path of the graph A* *)

\* C38: the A* search over the abstract graph returns a path exactly when
\* the goal node is reached from the start node over the edges, and the path
\* it returns has the least total edge cost of all such paths.
C38_GraphAStarReturnsALeastCostPath ==
    (search.kind = "graph_a_star" /\ search.pc = "returned") =>
        LET Least_cost(d) ==
                /\ ~search.out.panic
                /\ search.out.found <=> d[search.goals[1]] >= 0
                /\ search.out.found => search.out.path.cost = d[search.goals[1]]
        IN Least_cost(SearchDistances)

-----------------------------------------------------------------------------
(* The start among the goals *)

\* C39: when the start, no wall, is one of two or more goals handed to
\* find_paths or find_closest_goal, the result holds an entry for the start
\* whose path has the cost 0, and find_closest_goal returns that entry.
C39_StartAmongGoalsIsAnswered ==
    (/\ result.op \in {"find_paths", "find_closest_goal"}
     /\ Len(result.goals) >= 2
     /\ result.start \in GoalSet
     /\ grid[result.start] >= 0)
    => /\ ~result.panic
       /\ result.start \in DOMAIN result.paths
       /\ APCost(result.paths[result.start]) = 0
       /\ result.op = "find_closest_goal" => DOMAIN result.paths = {result.start}

-----------------------------------------------------------------------------
(* The searches behind the skips of resolve_paths *)

\* the chunk-bounded search resolve_paths runs when it takes skip_first for
\* the goal q: from the start to after_start, the end of the dropped segment
StartSkipSearch(q) ==
    ChunkFindPath(Self, get_chunk(Self, TheCache, result.start), result.start,
                  SegEnd(result.skips[q].first[1]), grid)

\* the chunk-bounded search resolve_paths runs when it takes skip_last for
\* the goal q: from before_goal, the start of the dropped segment, to q
GoalSkipSearch(q) ==
    ChunkFindPath(Self, get_chunk(Self, TheCache, SegStart(result.skips[q].last[1])),
                  SegStart(result.skips[q].last[1]), q, grid)

\* C40: whenever resolve_paths takes skip_first or skip_last for a goal, the
\* chunk-bounded search it then runs finds a path, so
\* expect("Inconsistency in Pathfinding") does not panic.
C40_SkipSearchesFindAPath ==
    IsQuery =>
        \A q \in DOMAIN result.skips :
            /\ result.skips[q].first # None => StartSkipSearch(q).found
            /\ result.skips[q].last # None => GoalSkipSearch(q).found

\* after a change of the grid find_paths has taken skip_first for one goal
\* and skip_last for one goal, and has returned a path for every goal it
\* took a skip for
C40_Witness ==
    /\ result.op = "find_paths"
    /\ changes > 0
    /\ ~result.panic
    /\ \E q \in DOMAIN result.skips : result.skips[q].first # None
    /\ \E q \in DOMAIN result.skips : result.skips[q].last # None
    /\ DOMAIN result.skips = DOMAIN result.paths

====
